---- MODULE Spec2Model ----
(***************************************************************************)
(* A model of the ossia task runtime: reference-counted coroutine frames   *)
(* (promise.hpp, future.hpp), the per-worker completion-driven event loop  *)
(* and the worker pool (io_context.hpp, io_context.cpp).                   *)
(*                                                                         *)
(* A frame reference is a number in Frames; 0 is the null pointer / the    *)
(* null coroutine handle (std::noop_coroutine() for a resume target).      *)
(***************************************************************************)
EXTENDS Integers, Sequences, FiniteSets, TLC

\* ------------------------------------------------------------------ bounds
MaxFrames == 3      \* coroutine frames ever created in a run of Spec
PoolFrames == 2     \* coroutine frames ever created in a run of PoolSpec
MaxWorkers == 2     \* workers of the pool in PoolSpec
MaxHandles == 2     \* future<T> objects of the code outside the tasks
MaxRoots == 2       \* tasks ever handed to schedule in a run
MaxDetached == 1    \* handles detached from one frame and not yet released
MaxCallers == 2     \* threads that call run() themselves
MaxSockets == 3     \* descriptors and socket handles the process may have open

Frames == 1..MaxFrames
Workers == 1..MaxWorkers
Handles == 1..MaxHandles
\* the values a task may return, and the failures it may raise: two, so that
\* one outcome can be told from another
Callers == 1..MaxCallers
Values == {1, 2}
Kinds == {"value", "ref", "void"}
\* results an I/O completion may carry (negative errno, or bytes transferred)
IOResults == {-1, 1}

VARIABLES
    frame,              \* [Frames -> promise and coroutine state of the frame]
    fut,                \* [Handles -> -1 (no such object), 0 (null future), or a frame]
    wpc,                \* [Workers -> position of the worker's thread]
    worker_is_running,  \* io_context_worker::m_is_running
    m_should_stop,      \* io_context_worker::m_should_stop
    m_tasks,            \* io_context_worker::m_tasks (the wake list)
    tasks,              \* the local vector `tasks` of io_context_worker::run
    idx,                \* position of the range-for over `tasks`
    stack_bottom,       \* the local reference `stack_bottom` of the range-for body
    cur,                \* the frame the worker's thread is executing, 0: the loop itself
    cq,                 \* the kernel completion queue of the worker's muxer
    inflight,           \* I/O requests queued on the worker's muxer, not yet completed
    ctx_is_running,     \* io_context::m_is_running
    pool_pc,            \* position of the thread that calls io_context::run
    m_worker_count,     \* io_context::m_worker_count
    frame_limit,        \* frames this run may still create (bounds the run)
    terminated,         \* std::terminate was called
    stop_called,        \* io_context::stop() has been called while run() was in progress
    platform,           \* the build: "linux" (io_uring) or "windows" (IOCP)
    last_error,         \* [Workers -> the thread's last-error value (GetLastError)]
    caller_pc,          \* [Callers -> position of a thread that calls run() itself]
    open_fds,           \* the descriptors (socket handles) that are open in the process
    stream,             \* a tcp_stream of the user's code: m_socket, m_address
    connect_awaitable,  \* the awaiter of the co_await stream.connect_async(address) in progress
    ctor_count,         \* the argument io_context was constructed with, -1: none
    hardware_concurrency, \* what std::thread::hardware_concurrency() returns, 0: unknown
    native,             \* std::endian::native of the build: "little" or "big"
    ip,                 \* an ip_address of the user's code
    port_arg,           \* a port number of the user's code
    inet,               \* an inet_address of the user's code, made from ip and port_arg
    converted,          \* the calls made on ip or inet so far and what the last one returned
    client,             \* the client coroutine of the ping-pong test: its position and locals
    server,             \* the server coroutine of the ping-pong test: its position and locals
    wire,               \* bytes sent on the connection and not yet received, per direction
    muxer,              \* io_context_worker objects of the user's code and the kernel queues
    blocking,           \* the last call of the blocking tcp_stream::connect and its outcome
    sockets             \* tcp_stream and tcp_server objects of the user's code and their sockets

frameVars == <<frame, fut>>
workerVars == <<wpc, worker_is_running, m_should_stop, m_tasks, tasks, idx,
                stack_bottom, cur, cq, inflight>>
poolVars == <<ctx_is_running, pool_pc, m_worker_count, frame_limit, platform>>
\* the state of the code that uses the pool from outside its tasks
userVars == <<caller_pc, open_fds, stream, connect_awaitable,
              ctor_count, hardware_concurrency,
              native, ip, port_arg, inet, converted,
              client, server, wire,
              muxer, blocking, sockets>>
vars == <<frame, fut, wpc, worker_is_running, m_should_stop, m_tasks, tasks, idx,
          stack_bottom, cur, cq, inflight, ctx_is_running, pool_pc, m_worker_count,
          frame_limit, terminated, stop_called, platform, last_error, caller_pc, open_fds,
          stream, connect_awaitable,
          ctor_count, hardware_concurrency,
          native, ip, port_arg, inet, converted,
          client, server, wire,
          muxer, blocking, sockets>>

ActiveWorkers == 1..m_worker_count

\* ------------------------------------------------------- frames (promise.hpp)
NoResult == [tag |-> "none", v |-> 0]

\* storage that holds no frame yet
NoFrame ==
    [state |-> "none", m_reference_count |-> 0, m_parent |-> 0, m_stack_bottom |-> 0,
     m_exception |-> 0, m_value |-> 0, kind |-> "void", child |-> 0, got |-> NoResult,
     io_result |-> 0, detached |-> 0, reaped |-> 0]

\* a promise whose initial_suspend does not suspend: the body starts at once
promise_base_started(k) ==
    [NoFrame EXCEPT !.state = "running", !.m_reference_count = 1, !.kind = k]

\* promise_base::promise_base and initial_suspend: count 1, no parent, suspended
promise_base(k) ==
    [NoFrame EXCEPT !.state = "initial", !.m_reference_count = 1, !.kind = k]

\* promise<T>::get_return_object: the frame is its own stack bottom
get_return_object(f, k) ==
    [promise_base(k) EXCEPT !.m_stack_bottom = f]

Live(f) == frame[f].state \notin {"none", "destroyed"}

\* std::coroutine_handle<>::done()
done(fr, f) == fr[f].state = "done"

\* the frame the next coroutine call creates (frames are never reused)
Created == {f \in Frames : frame[f].state # "none"}
Fresh == Cardinality(Created) + 1
CanCreate(n) == Fresh + n - 1 <= frame_limit

\* the frames handed to a worker's schedule so far
Scheduled == {f \in Frames : frame[f].detached + frame[f].reaped > 0}
CanSchedule(n) == CanCreate(n) /\ Cardinality(Scheduled) + n <= MaxRoots

\* std::uint32_t m_reference_count is held as its 32-bit pattern read as a signed
\* number: decrementing 0 gives -1, the pattern of 2^32 - 1, and the test
\* against 0 is the same test.

\* promise_base::acquire
acquire(fr, f) ==
    [fr EXCEPT ![f].m_reference_count = @ + 1]

\* m_coroutine.destroy(): the storage is freed; what stays is the bookkeeping
\* of the model
Destroyed(p) ==
    [NoFrame EXCEPT !.state = "destroyed", !.detached = p.detached, !.reaped = p.reaped]

\* a release that forgets to destroy the frame
release_no_destroy(fr, f) ==
    [fr EXCEPT ![f].m_reference_count = @ - 1]

\* promise_base::release: destroying the frame destroys the future it still
\* holds as a local, which releases that frame in turn
RECURSIVE release(_, _)
release(fr, f) ==
    LET n == fr[f].m_reference_count - 1
        c == fr[f].child
        gone == [fr EXCEPT ![f] = Destroyed(fr[f])]
    IN  IF n = 0
        THEN IF c # 0 THEN release(gone, c) ELSE gone
        ELSE [fr EXCEPT ![f].m_reference_count = n]

\* final_awaitable::await_suspend that always returns to the loop
final_await_suspend_noop(fr, f) == 0

\* final_awaitable::await_suspend: the frame to resume next, 0 for noop_coroutine
final_await_suspend(fr, f) ==
    IF fr[f].m_parent # 0 THEN fr[f].m_parent ELSE 0

\* a result() that hands out an empty value
result_value_lost(p) == [tag |-> "value", v |-> 0]

\* promise<T>::result() &&
result_value(p) ==
    IF p.m_exception # 0 THEN [tag |-> "exc", v |-> p.m_exception]
    ELSE [tag |-> "value", v |-> p.m_value]

\* promise<T &>::result() const noexcept: rethrowing out of a noexcept function
\* calls std::terminate
result_ref(p) ==
    IF p.m_exception # 0 THEN [tag |-> "terminate", v |-> p.m_exception]
    ELSE [tag |-> "value", v |-> p.m_value]

\* promise<void>::result() const
result_void(p) ==
    IF p.m_exception # 0 THEN [tag |-> "exc", v |-> p.m_exception]
    ELSE [tag |-> "void", v |-> 0]

\* an await_resume that gives the caller nothing of what the frame holds
await_resume_void(p) == [tag |-> "void", v |-> 0]

\* future_awaitable::await_resume
await_resume(p) ==
    CASE p.kind = "value" -> result_value(p)
      [] p.kind = "ref" -> result_ref(p)
      [] OTHER -> result_void(p)

\* future_awaitable::await_suspend that forgets the stack bottom
await_suspend_keep_bottom(fr, caller, callee) ==
    [fr EXCEPT ![callee].m_parent = caller]

\* future_awaitable::await_suspend that takes the caller for the stack bottom
await_suspend_bottom_is_caller(fr, caller, callee) ==
    [fr EXCEPT ![callee].m_parent = caller, ![callee].m_stack_bottom = caller]

\* future_awaitable::await_suspend: link the callee under the caller
await_suspend(fr, caller, callee) ==
    [fr EXCEPT ![callee].m_parent = caller,
               ![callee].m_stack_bottom = fr[caller].m_stack_bottom]


\* a schedule that appends the task twice
schedule_twice(q, t) == Append(Append(q, t), t)

\* a schedule that puts the task in front of the wake list
schedule_front(q, t) == <<t>> \o q

\* a schedule that loses the task
schedule_nowhere(q, t) == q

\* the no-op completion schedule posts, with a null tag
Nop == [task |-> 0, res |-> 0]

\* io_context_worker::schedule(promise_base *): the wake list after the call
schedule(q, t) == Append(q, t)

\* ------------------------------------------------- handles (future<T>)
\* The operations of future<T> on the objects Handles of the code outside the
\* tasks. Each takes and returns the pair S = [frame, fut].

\* future(const future &other): object h is made a copy of object o
copy_construct(S, h, o) ==
    [frame |-> IF S.fut[o] # 0 THEN acquire(S.frame, S.fut[o]) ELSE S.frame,
     fut |-> [S.fut EXCEPT ![h] = S.fut[o]]]

\* a move constructor that leaves the source as it was
move_construct_keep_source(S, h, o) ==
    [frame |-> S.frame, fut |-> [S.fut EXCEPT ![h] = S.fut[o]]]

\* future(future &&other): object h takes over what o held, o is left null
move_construct(S, h, o) ==
    [frame |-> S.frame, fut |-> [S.fut EXCEPT ![h] = S.fut[o], ![o] = 0]]

\* future::~future
destroy_future(S, h) ==
    [frame |-> IF S.fut[h] # 0 THEN release(S.frame, S.fut[h]) ELSE S.frame,
     fut |-> [S.fut EXCEPT ![h] = -1]]

\* future::operator=(const future &)
copy_assign(S, h, o) ==
    IF h = o THEN S
    ELSE IF S.fut[h] = S.fut[o] THEN S
    ELSE LET fr1 == IF S.fut[h] # 0 THEN release(S.frame, S.fut[h]) ELSE S.frame
             fr2 == IF S.fut[o] # 0 THEN acquire(fr1, S.fut[o]) ELSE fr1
         IN  [frame |-> fr2, fut |-> [S.fut EXCEPT ![h] = S.fut[o]]]

\* future::operator=(future &&)
move_assign(S, h, o) ==
    IF h = o THEN S
    ELSE LET fr1 == IF S.fut[h] # 0 THEN release(S.frame, S.fut[h]) ELSE S.frame
         IN  [frame |-> fr1, fut |-> [S.fut EXCEPT ![h] = S.fut[o], ![o] = 0]]

\* future::detach: the handle leaves the object, the count is not touched; the
\* frame records one more ownership held as a raw handle
detach(S, h) ==
    [frame |-> [S.frame EXCEPT ![S.fut[h]].detached = @ + 1],
     fut |-> [S.fut EXCEPT ![h] = 0]]

Pair == [frame |-> frame, fut |-> fut]

\* the code outside the tasks runs while no worker thread does
Outside == ~terminated /\ pool_pc \in {"idle", "returned"}

\* a task function is called and its future kept in a new object h
Factory(h) ==
    /\ Outside
    /\ pool_pc = "idle"
    /\ fut[h] = -1
    /\ CanCreate(1)
    /\ frame' = [frame EXCEPT ![Fresh] = get_return_object(Fresh, "void")]
    /\ fut' = [fut EXCEPT ![h] = Fresh]
    /\ UNCHANGED <<workerVars, poolVars, terminated, stop_called, last_error, userVars>>

\* future(): a null future
DefaultConstruct(h) ==
    /\ Outside
    /\ fut[h] = -1
    /\ fut' = [fut EXCEPT ![h] = 0]
    /\ UNCHANGED <<frame, workerVars, poolVars, terminated, stop_called, last_error, userVars>>

CopyConstruct(h, o) ==
    /\ Outside
    /\ fut[h] = -1
    /\ fut[o] >= 0
    /\ frame' = copy_construct(Pair, h, o).frame
    /\ fut' = copy_construct(Pair, h, o).fut
    /\ UNCHANGED <<workerVars, poolVars, terminated, stop_called, last_error, userVars>>

MoveConstruct(h, o) ==
    /\ Outside
    /\ fut[h] = -1
    /\ fut[o] >= 0
    /\ frame' = move_construct(Pair, h, o).frame
    /\ fut' = move_construct(Pair, h, o).fut
    /\ UNCHANGED <<workerVars, poolVars, terminated, stop_called, last_error, userVars>>

DestroyFuture(h) ==
    /\ Outside
    /\ fut[h] >= 0
    /\ frame' = destroy_future(Pair, h).frame
    /\ fut' = destroy_future(Pair, h).fut
    /\ UNCHANGED <<workerVars, poolVars, terminated, stop_called, last_error, userVars>>

\* h = o, o possibly h itself
CopyAssign(h, o) ==
    /\ Outside
    /\ fut[h] >= 0
    /\ fut[o] >= 0
    /\ frame' = copy_assign(Pair, h, o).frame
    /\ fut' = copy_assign(Pair, h, o).fut
    /\ UNCHANGED <<workerVars, poolVars, terminated, stop_called, last_error, userVars>>

\* h = std::move(o), o possibly h itself
MoveAssign(h, o) ==
    /\ Outside
    /\ fut[h] >= 0
    /\ fut[o] >= 0
    /\ frame' = move_assign(Pair, h, o).frame
    /\ fut' = move_assign(Pair, h, o).fut
    /\ UNCHANGED <<workerVars, poolVars, terminated, stop_called, last_error, userVars>>

Detach(h) ==
    /\ Outside
    /\ fut[h] > 0
    /\ frame[fut[h]].detached < MaxDetached
    /\ frame' = detach(Pair, h).frame
    /\ fut' = detach(Pair, h).fut
    /\ UNCHANGED <<workerVars, poolVars, terminated, stop_called, last_error, userVars>>

\* the holder of a detached handle gives it up: promise().release()
ReleaseDetached(f) ==
    /\ Outside
    /\ frame[f].detached > 0
    /\ frame' = [release(frame, f) EXCEPT ![f].detached = @ - 1]
    /\ UNCHANGED <<fut, workerVars, poolVars, terminated, stop_called, last_error, userVars>>

\* worker.schedule(t) with the future object h, before the pool runs: the
\* parameter of io_context_worker::schedule<T>(future<T>) is a copy of h, the
\* copy is detached and its promise handed to schedule(promise_base *)
ScheduleCopy(h, w) ==
    LET f == fut[h]
        S1 == detach(copy_construct([frame |-> frame, fut |-> fut @@ (0 :> 0)], 0, h), 0)
    IN  /\ Outside
        /\ pool_pc = "idle"
        /\ w \in ActiveWorkers
        /\ f > 0
        /\ frame[f].state = "initial"
        /\ frame[f].detached = 0
        /\ Cardinality(Scheduled) < MaxRoots
        /\ frame' = S1.frame
        /\ m_tasks' = [m_tasks EXCEPT ![w] = schedule(@, f)]
        /\ cq' = [cq EXCEPT ![w] = Append(@, Nop)]
        /\ UNCHANGED <<fut, wpc, worker_is_running, m_should_stop, tasks, idx,
                       stack_bottom, cur, inflight, poolVars, terminated, stop_called, last_error, userVars>>

\* a thread whose thread-local pointer names the first worker whatever it runs
current_first(w) == 1

\* io_context_worker::current() on the thread that runs worker w: the
\* thread-local current_worker is w from the entry of run (after the exchange
\* of m_is_running) to its exit, and null (0) otherwise
current(w) ==
    IF wpc[w] \in {"init", "top", "wait", "swap", "resume", "incoro", "check", "leave"}
    THEN w ELSE 0

\* ------------------------------------------ the body of a task (user code)
\* worker w's thread is inside a coroutine body
Running(w) ==
    /\ ~terminated
    /\ w \in ActiveWorkers
    /\ wpc[w] = "incoro"
    /\ cur[w] # 0

\* the running task calls a task function: a new frame, initially suspended,
\* whose future the caller holds (a temporary or a named local)
CallChild(w) ==
    /\ Running(w)
    /\ frame[cur[w]].child = 0
    /\ CanCreate(1)
    /\ \E k \in Kinds :
         frame' = [frame EXCEPT ![Fresh] = get_return_object(Fresh, k),
                                ![cur[w]].child = Fresh,
                                ![cur[w]].got = NoResult]
    /\ UNCHANGED <<fut, workerVars, poolVars, terminated, stop_called, last_error, userVars>>

\* the caller continues after a co_await on task c: await_resume reads c's result
Resumed(fr, p, c) ==
    LET r == await_resume(fr[c])
    IN  IF r.tag = "terminate" THEN fr
        ELSE [fr EXCEPT ![p].state = "running", ![p].got = r]

\* co_await on a future whose task is done: await_ready is true
AwaitReady(w) ==
    LET f == cur[w]
        c == frame[f].child
    IN  /\ Running(w)
        /\ c # 0
        /\ done(frame, c)
        /\ frame' = Resumed(frame, f, c)
        /\ terminated' = (await_resume(frame[c]).tag = "terminate")
        /\ UNCHANGED <<fut, workerVars, poolVars, stop_called, last_error, userVars>>

\* co_await on a future whose task is not done: suspend the caller, link the
\* callee and transfer control to it
AwaitSuspend(w) ==
    LET f == cur[w]
        c == frame[f].child
    IN  /\ Running(w)
        /\ c # 0
        /\ ~done(frame, c)
        /\ frame' = [await_suspend(frame, f, c) EXCEPT ![f].state = "await_task",
                                                       ![f].got = NoResult,
                                                       ![c].state = "running"]
        /\ cur' = [cur EXCEPT ![w] = c]
        /\ UNCHANGED <<fut, wpc, worker_is_running, m_should_stop, m_tasks, tasks, idx,
                       stack_bottom, cq, inflight, poolVars, terminated, stop_called, last_error, userVars>>

\* the future the task holds goes out of scope: future::~future
DropChild(w) ==
    LET f == cur[w]
        c == frame[f].child
    IN  /\ Running(w)
        /\ c # 0
        /\ frame' = [release(frame, c) EXCEPT ![f].child = 0, ![f].got = NoResult]
        /\ UNCHANGED <<fut, workerVars, poolVars, terminated, stop_called, last_error, userVars>>

\* The body ends with value v (e = 0) or by failure e: the locals are destroyed,
\* return_value / unhandled_exception store the outcome, and final_suspend
\* names the frame that runs next.
Complete(w, v, e) ==
    LET f == cur[w]
        c == frame[f].child
        fr1 == IF c # 0 THEN [release(frame, c) EXCEPT ![f].child = 0] ELSE frame
        fr2 == [fr1 EXCEPT ![f].state = "done",
                           ![f].m_value = IF fr1[f].kind = "void" THEN 0 ELSE v,
                           ![f].m_exception = e,
                           ![f].got = NoResult,
                           ![f].io_result = 0]
        next == final_await_suspend(fr2, f)
    IN  /\ Running(w)
        /\ cur' = [cur EXCEPT ![w] = next]
        /\ IF next = 0
           THEN /\ frame' = fr2
                /\ wpc' = [wpc EXCEPT ![w] = "check"]
                /\ UNCHANGED terminated
           ELSE /\ frame' = Resumed(fr2, next, fr2[next].child)
                /\ terminated' = (await_resume(fr2[fr2[next].child]).tag = "terminate")
                /\ UNCHANGED wpc
        /\ UNCHANGED <<fut, worker_is_running, m_should_stop, m_tasks, tasks, idx,
                       stack_bottom, cq, inflight, poolVars, stop_called, last_error, userVars>>

\* co_return
Return(w) == \E v \in Values : Complete(w, v, 0)

\* the value of the await can be returned as it is: by value, or as a
\* reference when the awaited task returned a reference
PassThrough(f) ==
    /\ frame[f].got.tag = "value"
    /\ frame[f].child # 0
    /\ \/ frame[f].kind = "value"
       \/ frame[f].kind = "ref" /\ frame[frame[f].child].kind = "ref"

\* co_return co_await child(): the value read by await_resume is returned
ReturnAwaited(w) ==
    /\ Running(w)
    /\ PassThrough(cur[w])
    /\ Complete(w, frame[cur[w]].got.v, 0)

\* an exception leaves the body: promise_base::unhandled_exception
Throw(w) == \E e \in Values : Complete(w, 0, e)

\* co_await on an I/O awaiter whose await_suspend returns false: the result is
\* in the completion record and the task goes on inline
AwaitIOSync(w) ==
    /\ Running(w)
    /\ \E r \in IOResults :
         frame' = [frame EXCEPT ![cur[w]].got = [tag |-> "io", v |-> r]]
    /\ UNCHANGED <<fut, workerVars, poolVars, terminated, stop_called, last_error, userVars>>

\* co_await on an I/O awaiter whose await_suspend returns true: the record's
\* promise is the awaiting frame, the request is queued, control returns to
\* the worker loop
AwaitIOPending(w) ==
    /\ Running(w)
    /\ frame' = [frame EXCEPT ![cur[w]].state = "await_io", ![cur[w]].got = NoResult]
    /\ inflight' = [inflight EXCEPT ![current(w)] = @ \cup {cur[w]}]
    /\ cur' = [cur EXCEPT ![w] = 0]
    /\ wpc' = [wpc EXCEPT ![w] = "check"]
    /\ UNCHANGED <<fut, worker_is_running, m_should_stop, m_tasks, tasks, idx,
                   stack_bottom, cq, poolVars, terminated, stop_called, last_error, userVars>>

\* GetQueuedCompletionStatus fails with this error when nothing is queued
WAIT_TIMEOUT == 258

\* the error an overlapped call reports when its request has been queued
WSA_IO_PENDING == 997

\* an error of a request that fails at once
WSAECONNRESET == 10054

\* the awaiters of tcp_server::accept_async and of tcp_stream::connect_async,
\* send_async and receive_async
Ops == {"accept", "connect", "send", "receive"}

\* what the operating system does with one request: whether the calls before
\* the request succeed, the creation of the socket fails or a later one fails
\* (`setup`), whether the request completes at once, is
\* queued or fails at once (`call`), and whether a call that succeeds resets
\* the thread's last error to 0 or leaves the value of an earlier failure
Outcomes ==
    [setup : {"ok", "no_socket", "fail"}, call : {"done", "pending", "failed"},
     resets : BOOLEAN]

\* the awaiters that make calls before the request: socket() for connect on
\* Linux; WSASocketW, bind, the port and the ConnectEx lookup on Windows
HasSetup(plat, op) ==
    IF plat = "linux" THEN op = "connect" ELSE op \in {"accept", "connect"}

\* a request never completes inside io_uring_get_sqe or io_uring_prep_*, and
\* no request is made after a call before it has failed
OutcomesOf(plat, op) ==
    {os \in Outcomes :
        /\ plat = "linux" => os.call # "done"
        /\ os.setup # "ok" => (HasSetup(plat, op) /\ os.call = "failed")
        /\ os.setup = "fail" => plat = "windows"}

\* m_ovlp.error and, when it is 0, the value of the operation, as one signed
\* number: the form of m_ovlp.result on Linux
record(error, value) == IF error = 0 THEN value ELSE 0 - error

\* the value a successful operation leaves: connect reports 0, the others a
\* socket or a byte count
success(op) == IF op = "connect" THEN 0 ELSE 1

\* await_suspend() of the four awaiters, Linux branch: socket() for connect,
\* then a submission queue entry (after io_uring_submit when the queue is
\* full), which is prepared and left for the worker to submit
linux_await_suspend(op, os, le) ==
    IF op = "connect" /\ os.setup # "ok"
    THEN [suspend |-> FALSE, written |-> TRUE, result |-> -1, last_error |-> le]
    ELSE IF os.call = "failed"
    THEN [suspend |-> FALSE, written |-> TRUE, result |-> -1, last_error |-> le]
    ELSE [suspend |-> TRUE, written |-> FALSE, result |-> 0, last_error |-> le]

\* the value AcceptEx and ConnectEx (BOOL) or WSASend and WSARecv (int: 0 or
\* SOCKET_ERROR) return
win_return(op, os) ==
    IF op \in {"accept", "connect"}
    THEN (IF os.call = "done" THEN 1 ELSE 0)
    ELSE (IF os.call = "done" THEN 0 ELSE -1)

\* the thread's last error after the call
win_last_error(os, le) ==
    CASE os.call = "pending" -> WSA_IO_PENDING
      [] os.call = "failed" -> WSAECONNRESET
      [] OTHER -> IF os.resets THEN 0 ELSE le

\* await_suspend() of the four awaiters, Windows branch
windows_await_suspend(op, os, le) ==
    IF op \in {"accept", "connect"} /\ os.setup # "ok"
    THEN [suspend |-> FALSE, written |-> TRUE, result |-> record(WSAECONNRESET, 0),
          last_error |-> WSAECONNRESET]
    ELSE LET ret == win_return(op, os)
             error == win_last_error(os, le)
         IN  IF ret = 1
             THEN [suspend |-> FALSE, written |-> TRUE, result |-> record(0, success(op)),
                   last_error |-> error]
             ELSE IF op \in {"send", "receive"} /\ error = 0
             THEN [suspend |-> FALSE, written |-> TRUE, result |-> record(0, success(op)),
                   last_error |-> error]
             ELSE IF error = WSA_IO_PENDING
             THEN [suspend |-> TRUE, written |-> FALSE, result |-> 0, last_error |-> error]
             ELSE [suspend |-> FALSE, written |-> TRUE, result |-> record(error, 0),
                   last_error |-> error]

\* await_suspend(std::coroutine_handle<T>): m_ovlp.promise = &coroutine.promise()
ovlp_promise(f) == f

\* a port that gets a completion packet for every request that did not fail
posts_completion_always(plat, os) == os.call # "failed"

\* the requests the muxer will report: on Linux the queue entries prepared,
\* on Windows the pending ones, a request that completes at once being
\* skipped (FILE_SKIP_COMPLETION_PORT_ON_SUCCESS)
posts_completion(plat, os) == os.call = "pending"

\* await_resume() of the four awaiters: the record as a value (an expected or
\* an error_code), never an exception
await_resume_io(result) == [tag |-> "io", v |-> result]

\* co_await on one of the four awaiters
AwaitIO(w) ==
    /\ Running(w)
    /\ \E op \in Ops : \E os \in OutcomesOf(platform, op) :
         LET f == cur[w]
             r == IF platform = "linux"
                  THEN linux_await_suspend(op, os, last_error[w])
                  ELSE windows_await_suspend(op, os, last_error[w])
             posted == IF posts_completion(platform, os) /\ ovlp_promise(f) # 0
                       THEN {ovlp_promise(f)} ELSE {}
         IN  /\ last_error' = [last_error EXCEPT ![w] = r.last_error]
             /\ inflight' = [inflight EXCEPT ![current(w)] = @ \cup posted]
             /\ IF r.suspend
                THEN /\ frame' = [frame EXCEPT ![f].state = "await_io",
                                               ![f].got = NoResult]
                     /\ cur' = [cur EXCEPT ![w] = 0]
                     /\ wpc' = [wpc EXCEPT ![w] = "check"]
                ELSE /\ frame' = [frame EXCEPT ![f].got = await_resume_io(r.result)]
                     /\ UNCHANGED <<cur, wpc>>
    /\ UNCHANGED <<fut, worker_is_running, m_should_stop, m_tasks, tasks, idx,
                   stack_bottom, cq, poolVars, terminated, stop_called, userVars>>

\* the running task schedules a new task on its own worker:
\* io_context_worker::schedule<T>(future<T>) detaches the future (count stays 1)
ScheduleNew(w) ==
    /\ Running(w)
    /\ CanSchedule(1)
    /\ frame' = [frame EXCEPT ![Fresh] =
                   [get_return_object(Fresh, "void") EXCEPT !.detached = 1],
                            ![cur[w]].got = NoResult]
    /\ m_tasks' = [m_tasks EXCEPT ![w] = schedule(@, Fresh)]
    /\ cq' = [cq EXCEPT ![w] = Append(@, Nop)]
    /\ UNCHANGED <<fut, wpc, worker_is_running, m_should_stop, tasks, idx,
                   stack_bottom, cur, inflight, poolVars, terminated, stop_called, last_error, userVars>>

\* an io_context::stop that sets no flag
stop_nothing(flags) == flags

\* io_context::stop: every worker's stop flag is set
stop(flags) == [x \in Workers |-> IF x \in ActiveWorkers THEN TRUE ELSE flags[x]]

\* the running task calls io_context::stop
StopFromTask(w) ==
    /\ Running(w)
    /\ ~m_should_stop[w]
    /\ m_should_stop' = stop(m_should_stop)
    /\ stop_called' = (stop_called \/ ctx_is_running)
    /\ frame' = [frame EXCEPT ![cur[w]].got = NoResult]
    /\ UNCHANGED <<fut, wpc, worker_is_running, m_tasks, tasks, idx, stack_bottom,
                   cur, cq, inflight, poolVars, terminated, last_error, userVars>>

\* ------------------------------------ the worker loop (io_context_worker::run)
\* the first statement of io_context_worker::run: m_is_running.exchange(true)
WorkerRunEnter(w) ==
    /\ ~terminated
    /\ w \in ActiveWorkers
    /\ wpc[w] = "enter"
    /\ IF worker_is_running[w]
       THEN wpc' = [wpc EXCEPT ![w] = "exited"]
       ELSE wpc' = [wpc EXCEPT ![w] = "init"]
    /\ worker_is_running' = [worker_is_running EXCEPT ![w] = TRUE]
    /\ UNCHANGED <<frameVars, m_should_stop, m_tasks, tasks, idx, stack_bottom, cur, cq,
                   inflight, poolVars, terminated, stop_called, last_error, userVars>>

\* m_should_stop.store(false) before the loop
WorkerRunInit(w) ==
    /\ ~terminated
    /\ w \in ActiveWorkers
    /\ wpc[w] = "init"
    /\ m_should_stop' = [m_should_stop EXCEPT ![w] = FALSE]
    /\ wpc' = [wpc EXCEPT ![w] = "top"]
    /\ UNCHANGED <<frameVars, worker_is_running, m_tasks, tasks, idx, stack_bottom, cur,
                   cq, inflight, poolVars, terminated, stop_called, last_error, userVars>>

\* a loop condition that never ends the loop
loop_condition_true(should_stop) == TRUE

\* the condition of the loop: !m_should_stop.load()
loop_condition(should_stop) == ~should_stop

\* while (!m_should_stop.load())
WorkerLoopTop(w) ==
    /\ ~terminated
    /\ w \in ActiveWorkers
    /\ wpc[w] = "top"
    /\ wpc' = [wpc EXCEPT ![w] = IF loop_condition(m_should_stop[w]) THEN "wait" ELSE "leave"]
    /\ UNCHANGED <<frameVars, worker_is_running, m_should_stop, m_tasks, tasks, idx,
                   stack_bottom, cur, cq, inflight, poolVars, terminated, stop_called, last_error, userVars>>

\* after the loop: m_is_running.store(false)
WorkerLeave(w) ==
    /\ ~terminated
    /\ w \in ActiveWorkers
    /\ wpc[w] = "leave"
    /\ worker_is_running' = [worker_is_running EXCEPT ![w] = FALSE]
    /\ wpc' = [wpc EXCEPT ![w] = "exited"]
    /\ UNCHANGED <<frameVars, m_should_stop, m_tasks, tasks, idx, stack_bottom, cur, cq,
                   inflight, poolVars, terminated, stop_called, last_error, userVars>>

\* a drain that takes every completion as one that carries a record
Tagged_all(q) == q

\* the completions of q that carry a completion record, in order
Tagged(q) == SelectSeq(q, LAMBDA e : e.task # 0)

\* the sequences of completions in which requests of set S may complete:
\* any of them, in any order, each with any result
RECURSIVE Completions(_)
Completions(S) ==
    {<<>>} \cup
    UNION {{<<[task |-> f, res |-> r]>> \o q : q \in Completions(S \ {f})} :
             <<f, r>> \in S \X IOResults}

\* the IOCP drain ends on the call that fails with WAIT_TIMEOUT, which is then
\* the thread's last error; the io_uring drain returns its errors as values
drain_last_error(plat, le) == IF plat = "windows" THEN WAIT_TIMEOUT ELSE le

\* a drain that leaves the completion records as they are
write_records_none(fr, got) == fr

\* ovlp->result = cqe->res for each drained completion that carries a record
write_records(fr, got) ==
    [f \in Frames |->
       IF \E i \in 1..Len(got) : got[i].task = f
       THEN [fr[f] EXCEPT !.io_result =
               got[CHOOSE i \in 1..Len(got) : got[i].task = f].res]
       ELSE fr[f]]

\* The wait of up to one second and the drain of what is available: the queue
\* holds the posted no-ops and the requests the kernel has completed by now.
\* Each completion with a record writes the result into the record and appends
\* the record's promise to the wake list. An empty queue is the timeout.
WorkerWait(w) ==
    \E arrived \in Completions(inflight[w]) :
    LET got == Tagged(cq[w] \o arrived)
    IN  /\ ~terminated
        /\ w \in ActiveWorkers
        /\ wpc[w] = "wait"
        /\ inflight' = [inflight EXCEPT ![w] = @ \ {arrived[i].task : i \in 1..Len(arrived)}]
        /\ frame' = write_records(frame, got)
        /\ m_tasks' = [m_tasks EXCEPT ![w] = @ \o [i \in 1..Len(got) |-> got[i].task]]
        /\ cq' = [cq EXCEPT ![w] = <<>>]
        /\ wpc' = [wpc EXCEPT ![w] = "swap"]
        /\ last_error' = [last_error EXCEPT ![w] = drain_last_error(platform, @)]
        /\ UNCHANGED <<fut, worker_is_running, m_should_stop, tasks, idx, stack_bottom,
                       cur, poolVars, terminated, stop_called, userVars>>

\* tasks.swap(m_tasks): `tasks` was cleared at the end of the last iteration
WorkerSwap(w) ==
    /\ ~terminated
    /\ w \in ActiveWorkers
    /\ wpc[w] = "swap"
    /\ tasks' = [tasks EXCEPT ![w] = m_tasks[w]]
    /\ m_tasks' = [m_tasks EXCEPT ![w] = tasks[w]]
    /\ idx' = [idx EXCEPT ![w] = 1]
    /\ wpc' = [wpc EXCEPT ![w] = "resume"]
    /\ UNCHANGED <<frameVars, worker_is_running, m_should_stop, stack_bottom, cur, cq,
                   inflight, poolVars, terminated, stop_called, last_error, userVars>>

\* a loop that resumes the stack bottom of the entry's chain
resume_target_bottom(fr, t) == fr[t].m_stack_bottom

\* the frame the loop resumes for wake-list entry t: task->coroutine()
resume_target(fr, t) == t

\* the body of the range-for up to the resume: remember the entry's stack
\* bottom and resume the entry; a task woken from I/O reads its record
WorkerResume(w) ==
    LET t == tasks[w][idx[w]]
        r == resume_target(frame, t)
    IN  /\ ~terminated
        /\ w \in ActiveWorkers
        /\ wpc[w] = "resume"
        /\ idx[w] <= Len(tasks[w])
        /\ stack_bottom' = [stack_bottom EXCEPT ![w] = frame[t].m_stack_bottom]
        /\ cur' = [cur EXCEPT ![w] = r]
        /\ frame' = [frame EXCEPT ![r].state = "running",
                                  ![r].got = IF frame[r].state = "await_io"
                                             THEN [tag |-> "io", v |-> frame[r].io_result]
                                             ELSE @,
                                  ![r].io_result = 0]
        /\ wpc' = [wpc EXCEPT ![w] = "incoro"]
        /\ UNCHANGED <<fut, worker_is_running, m_should_stop, m_tasks, tasks, idx, cq,
                       inflight, poolVars, terminated, stop_called, last_error, userVars>>

\* a loop that never releases a stack bottom
reap_never(fr, sb) == fr

\* a loop that releases the stack bottom whether it is done or not
reap_always(fr, sb) ==
    [release(fr, sb) EXCEPT ![sb].detached = @ - 1, ![sb].reaped = @ + 1]

\* if (stack_bottom.coroutine().done()) stack_bottom.release(): the ownership
\* taken at schedule time is given up
reap(fr, sb) ==
    IF done(fr, sb)
    THEN [release(fr, sb) EXCEPT ![sb].detached = @ - 1, ![sb].reaped = @ + 1]
    ELSE fr

\* the rest of the range-for body, once resume() has returned
WorkerCheck(w) ==
    LET sb == stack_bottom[w]
    IN  /\ ~terminated
        /\ w \in ActiveWorkers
        /\ wpc[w] = "check"
        /\ frame' = reap(frame, sb)
        /\ idx' = [idx EXCEPT ![w] = @ + 1]
        /\ stack_bottom' = [stack_bottom EXCEPT ![w] = 0]
        /\ wpc' = [wpc EXCEPT ![w] = "resume"]
        /\ UNCHANGED <<fut, worker_is_running, m_should_stop, m_tasks, tasks, cur, cq,
                       inflight, poolVars, terminated, stop_called, last_error, userVars>>

\* the range-for is over: tasks.clear(), back to the loop condition
WorkerEndIteration(w) ==
    /\ ~terminated
    /\ w \in ActiveWorkers
    /\ wpc[w] = "resume"
    /\ idx[w] > Len(tasks[w])
    /\ tasks' = [tasks EXCEPT ![w] = <<>>]
    /\ idx' = [idx EXCEPT ![w] = 0]
    /\ wpc' = [wpc EXCEPT ![w] = "top"]
    /\ UNCHANGED <<frameVars, worker_is_running, m_should_stop, m_tasks, stack_bottom,
                   cur, cq, inflight, poolVars, terminated, stop_called, last_error, userVars>>

\* ------------------------------------------------------ the pool (io_context)
\* a dispatch loop that stops after the first worker
dispatch_targets_first == {1}

\* for (i = 0; i < worker_count(); ++i): the workers the dispatch loop visits
dispatch_targets == ActiveWorkers

\* a dispatch that calls the factory once and hands the same task to every worker
dispatch_task_shared(first, w) == first

\* func(args...) is called anew for each worker: the w-th call's frame
dispatch_task(first, w) == first + w - 1

\* io_context::dispatch on a pool that is not running: one task per worker,
\* each handed to its worker's schedule
Dispatch ==
    LET n == m_worker_count
        first == Fresh
        new == {dispatch_task(first, w) : w \in dispatch_targets}
    IN  /\ ~terminated
        /\ pool_pc = "idle"
        /\ CanSchedule(n)
        /\ frame' = [f \in Frames |->
                        IF f \in new
                        THEN [get_return_object(f, "void") EXCEPT !.detached = 1]
                        ELSE frame[f]]
        /\ m_tasks' = [w \in Workers |->
                         IF w \in dispatch_targets
                         THEN schedule(m_tasks[w], dispatch_task(first, w))
                         ELSE m_tasks[w]]
        /\ cq' = [w \in Workers |->
                    IF w \in dispatch_targets THEN Append(cq[w], Nop) ELSE cq[w]]
        /\ UNCHANGED <<fut, wpc, worker_is_running, m_should_stop, tasks, idx,
                       stack_bottom, cur, inflight, poolVars, terminated, stop_called, last_error, userVars>>

\* io_context::run up to the joins: one thread per worker, each calling
\* io_context_worker::run
RunCall ==
    /\ ~terminated
    /\ pool_pc = "idle"
    /\ ~ctx_is_running
    /\ ctx_is_running' = TRUE
    /\ wpc' = [w \in Workers |-> IF w \in ActiveWorkers THEN "enter" ELSE wpc[w]]
    /\ pool_pc' = "joining"
    /\ UNCHANGED <<frameVars, worker_is_running, m_should_stop, m_tasks, tasks, idx,
                   stack_bottom, cur, cq, inflight, m_worker_count, frame_limit, platform,
                   terminated, stop_called, last_error, userVars>>

\* io_context::run after the joins: every worker thread has returned
RunReturn ==
    /\ ~terminated
    /\ pool_pc = "joining"
    /\ \A w \in ActiveWorkers : wpc[w] = "exited"
    /\ ctx_is_running' = FALSE
    /\ pool_pc' = "returned"
    /\ UNCHANGED <<frameVars, workerVars, m_worker_count, frame_limit, platform, terminated,
                   stop_called, last_error, userVars>>

\* io_context::stop called from a thread outside the pool
StopCall ==
    /\ ~terminated
    /\ \E w \in ActiveWorkers : ~m_should_stop[w]
    /\ m_should_stop' = stop(m_should_stop)
    /\ stop_called' = (stop_called \/ ctx_is_running)
    /\ UNCHANGED <<frameVars, wpc, worker_is_running, m_tasks, tasks, idx, stack_bottom,
                   cur, cq, inflight, poolVars, terminated, last_error, userVars>>

\* ------------------------------------------- tcp_stream (tcp_stream.cpp)
\* the value of a socket member that holds no socket
invalid_socket == -1

\* the descriptors and socket handles of the process
Fds == 0..(MaxSockets - 1)

\* peer addresses; 0 is the default-constructed inet_address
Addresses == {1, 2}

\* tcp_stream::tcp_stream()
tcp_stream == [m_socket |-> invalid_socket, m_address |-> 0]

\* no co_await on connect_async is in progress; `result` keeps the error code
\* the last one returned; `s` is the local of await_suspend that holds what
\* socket() or WSASocketW returned
NoAwaitable ==
    [state |-> "none", m_socket |-> 0, m_address |-> 0, result |-> 0, s |-> invalid_socket]

\* connect_awaitable::connect_awaitable: m_ovlp(), m_socket(), m_address(&address)
new_connect_awaitable(a) ==
    [state |-> "created", m_socket |-> 0, m_address |-> a, result |-> 0, s |-> invalid_socket]

\* the socket a successful socket() or WSASocketW returns: the lowest free
\* descriptor on Linux, a handle that is never 0 on Windows
new_socket(plat, open) ==
    LET free == {d \in Fds \ open : plat = "windows" => d # 0}
    IN  IF free = {} THEN invalid_socket
        ELSE CHOOSE d \in free : \A e \in free : d <= e

\* close(fd) and closesocket(s): closing what is not open fails and changes nothing
close(open, fd) == open \ {fd}

\* connect_awaitable::await_resume
await_resume_connect(aw, st, open) ==
    IF aw.result = 0
    THEN [stream |-> [m_socket |-> aw.m_socket, m_address |-> aw.m_address],
          open |-> IF st.m_socket # invalid_socket THEN close(open, st.m_socket) ELSE open]
    ELSE [stream |-> st,
          open |-> IF aw.m_socket # invalid_socket THEN close(open, aw.m_socket) ELSE open]

\* co_await stream.connect_async(address) up to the return of await_suspend:
\* the awaiter is constructed, a socket is created and the request is made
ConnectAsync ==
    /\ connect_awaitable.state = "none"
    /\ \E a \in Addresses : \E os \in OutcomesOf(platform, "connect") :
         LET s == IF os.setup = "no_socket" THEN invalid_socket
                  ELSE new_socket(platform, open_fds)
             aw == new_connect_awaitable(a)
             r == IF platform = "linux"
                  THEN linux_await_suspend("connect", os, last_error[1])
                  ELSE windows_await_suspend("connect", os, last_error[1])
         IN  /\ os.setup # "no_socket" => s # invalid_socket
             /\ open_fds' = IF s = invalid_socket THEN open_fds ELSE open_fds \cup {s}
             /\ connect_awaitable' =
                  [aw EXCEPT !.state = IF r.suspend THEN "pending" ELSE "ready",
                             !.m_socket = IF s = invalid_socket THEN aw.m_socket ELSE s,
                             !.s = s,
                             !.result = r.result]
             /\ last_error' = [last_error EXCEPT ![1] = r.last_error]
    /\ UNCHANGED <<frameVars, workerVars, poolVars, terminated, stop_called, caller_pc,
                   stream,
                   ctor_count, hardware_concurrency,
                   native, ip, port_arg, inet, converted,
                   client, server, wire,
                   muxer, blocking, sockets>>

\* the worker's drain writes the outcome of the connect into the awaiter's
\* record and the task is resumed
ConnectCompleted ==
    /\ connect_awaitable.state = "pending"
    /\ \E res \in {0, -1} :
         connect_awaitable' = [connect_awaitable EXCEPT !.state = "ready", !.result = res]
    /\ UNCHANGED <<frameVars, workerVars, poolVars, terminated, stop_called, last_error,
                   caller_pc, open_fds, stream,
                   ctor_count, hardware_concurrency,
                   native, ip, port_arg, inet, converted,
                   client, server, wire,
                   muxer, blocking, sockets>>

\* the end of the co_await: await_resume gives the error code
ConnectResume ==
    /\ connect_awaitable.state = "ready"
    /\ LET r == await_resume_connect(connect_awaitable, stream, open_fds)
       IN  /\ stream' = r.stream
           /\ open_fds' = r.open
    /\ connect_awaitable' = [NoAwaitable EXCEPT !.result = connect_awaitable.result]
    /\ UNCHANGED <<frameVars, workerVars, poolVars, terminated, stop_called, last_error,
                   caller_pc,
                   ctor_count, hardware_concurrency,
                   native, ip, port_arg, inet, converted,
                   client, server, wire,
                   muxer, blocking, sockets>>

\* ------------------------------------- threads that call run() concurrently
\* an exchange that never finds the flag set
exchange_unset(flag) == FALSE

\* m_is_running.exchange(true): the value the flag had
exchange(flag) == flag

\* an io_context_worker constructed on its own, outside any pool
Standalone == MaxWorkers

\* io_context::run called by thread c: return at once when the pool is
\* running, else start one thread per worker and go on to the joins
PoolRunBy(c) ==
    /\ ~terminated
    /\ caller_pc[c] = "idle"
    /\ ctx_is_running' = TRUE
    /\ IF exchange(ctx_is_running)
       THEN /\ caller_pc' = [caller_pc EXCEPT ![c] = "returned_at_once"]
            /\ UNCHANGED wpc
       ELSE /\ caller_pc' = [caller_pc EXCEPT ![c] = "joining"]
            /\ wpc' = [w \in Workers |-> IF w \in ActiveWorkers THEN "enter" ELSE wpc[w]]
    /\ UNCHANGED <<frameVars, worker_is_running, m_should_stop, m_tasks, tasks, idx,
                   stack_bottom, cur, cq, inflight, pool_pc, m_worker_count, frame_limit,
                   platform, terminated, stop_called, last_error, open_fds,
                   stream, connect_awaitable,
                   ctor_count, hardware_concurrency,
                   native, ip, port_arg, inet, converted,
                   client, server, wire,
                   muxer, blocking, sockets>>

\* io_context::run of thread c after the joins
PoolReturnBy(c) ==
    /\ ~terminated
    /\ caller_pc[c] = "joining"
    /\ \A w \in ActiveWorkers : wpc[w] = "exited"
    /\ ctx_is_running' = FALSE
    /\ caller_pc' = [caller_pc EXCEPT ![c] = "returned"]
    /\ UNCHANGED <<frameVars, workerVars, pool_pc, m_worker_count, frame_limit, platform,
                   terminated, stop_called, last_error, open_fds,
                   stream, connect_awaitable,
                   ctor_count, hardware_concurrency,
                   native, ip, port_arg, inet, converted,
                   client, server, wire,
                   muxer, blocking, sockets>>

\* io_context_worker::run of the standalone worker called by thread c: return
\* at once when the worker is running
WorkerRunBy(c) ==
    /\ ~terminated
    /\ caller_pc[c] = "idle"
    /\ worker_is_running' = [worker_is_running EXCEPT ![Standalone] = TRUE]
    /\ caller_pc' = [caller_pc EXCEPT ![c] =
                       IF exchange(worker_is_running[Standalone])
                       THEN "returned_at_once" ELSE "init"]
    /\ UNCHANGED <<frameVars, wpc, m_should_stop, m_tasks, tasks, idx, stack_bottom, cur,
                   cq, inflight, poolVars, terminated, stop_called, last_error, open_fds,
                   stream, connect_awaitable,
                   ctor_count, hardware_concurrency,
                   native, ip, port_arg, inet, converted,
                   client, server, wire,
                   muxer, blocking, sockets>>

\* m_should_stop.store(false) of thread c before its loop
WorkerInitBy(c) ==
    /\ ~terminated
    /\ caller_pc[c] = "init"
    /\ m_should_stop' = [m_should_stop EXCEPT ![Standalone] = FALSE]
    /\ caller_pc' = [caller_pc EXCEPT ![c] = "top"]
    /\ UNCHANGED <<frameVars, wpc, worker_is_running, m_tasks, tasks, idx, stack_bottom,
                   cur, cq, inflight, poolVars, terminated, stop_called, last_error, open_fds,
                   stream, connect_awaitable,
                   ctor_count, hardware_concurrency,
                   native, ip, port_arg, inet, converted,
                   client, server, wire,
                   muxer, blocking, sockets>>

\* the loop test of thread c that finds the stop flag set; an iteration of a
\* worker that was given no task changes nothing
WorkerLoopBy(c) ==
    /\ ~terminated
    /\ caller_pc[c] = "top"
    /\ m_should_stop[Standalone]
    /\ caller_pc' = [caller_pc EXCEPT ![c] = "leave"]
    /\ UNCHANGED <<frameVars, workerVars, poolVars, terminated, stop_called, last_error, open_fds,
                   stream, connect_awaitable,
                   ctor_count, hardware_concurrency,
                   native, ip, port_arg, inet, converted,
                   client, server, wire,
                   muxer, blocking, sockets>>

\* m_is_running.store(false) of thread c after its loop
WorkerLeaveBy(c) ==
    /\ ~terminated
    /\ caller_pc[c] = "leave"
    /\ worker_is_running' = [worker_is_running EXCEPT ![Standalone] = FALSE]
    /\ caller_pc' = [caller_pc EXCEPT ![c] = "returned"]
    /\ UNCHANGED <<frameVars, wpc, m_should_stop, m_tasks, tasks, idx, stack_bottom, cur,
                   cq, inflight, poolVars, terminated, stop_called, last_error, open_fds,
                   stream, connect_awaitable,
                   ctor_count, hardware_concurrency,
                   native, ip, port_arg, inet, converted,
                   client, server, wire,
                   muxer, blocking, sockets>>

\* io_context_worker::stop of the standalone worker, called from any thread
StopStandalone ==
    /\ ~terminated
    /\ ~m_should_stop[Standalone]
    /\ m_should_stop' = [m_should_stop EXCEPT ![Standalone] = TRUE]
    /\ UNCHANGED <<frameVars, wpc, worker_is_running, m_tasks, tasks, idx, stack_bottom,
                   cur, cq, inflight, poolVars, terminated, stop_called, last_error,
                   userVars>>

\* ------------------------------------------------------------ tests/tcp_pingpong.cpp

\* the sizes of the test, scaled down
packet_count == 2
packet_size == 2
buffer_size == 2

Min(a, b) == IF a < b THEN a ELSE b

\* the locals of client() before its loop; received counts the bytes it got back
NewClient == [pc |-> "loop", total_size |-> 0, send_size |-> 0, result |-> 0,
              recv_size |-> 0, received |-> 0]

\* the locals of server() before its loop; echoed counts the bytes it sent back
NewServer == [pc |-> "loop", total_size |-> 0, recv_size |-> 0, result |-> 0,
              sent_size |-> 0, echoed |-> 0]

\* nothing is in flight on a new connection
NewWire == [to_server |-> 0, to_client |-> 0]

\* the code under study is not the ping-pong test
NoPingPong ==
    /\ client = [NewClient EXCEPT !.pc = "none"]
    /\ server = [NewServer EXCEPT !.pc = "none"]
    /\ wire = NewWire

\* the counts a transfer of up to n bytes can report when avail bytes can move
transferred(n, avail) == 1..Min(n, avail)

pingRest == <<frameVars, workerVars, poolVars, terminated, stop_called, last_error,
              caller_pc, open_fds, stream, connect_awaitable, ctor_count,
              hardware_concurrency, native, ip, port_arg, inet, converted>>

\* client(): the test of the outer loop, send_async and the lines up to the inner loop
ClientSend ==
    /\ client.pc = "loop"
    /\ IF client.total_size < packet_size * packet_count
       THEN LET send_size == Min(buffer_size, packet_size * packet_count - client.total_size)
            IN \E n \in transferred(send_size, send_size) :
                /\ client' = [client EXCEPT !.send_size = send_size,
                                            !.result = n,
                                            !.total_size = @ + n,
                                            !.recv_size = 0,
                                            !.pc = "inner"]
                /\ wire' = [wire EXCEPT !.to_server = @ + n]
       ELSE /\ client' = [client EXCEPT !.pc = "done"]
            /\ UNCHANGED wire
    /\ UNCHANGED <<pingRest, server,
                   muxer, blocking, sockets>>

\* client(): the test of the inner loop and its body, one receive_async
ClientReceive ==
    /\ client.pc = "inner"
    /\ IF client.recv_size < client.result
       THEN /\ wire.to_client > 0
            /\ \E n \in transferred(client.send_size - client.recv_size, wire.to_client) :
                /\ client' = [client EXCEPT !.result = n,
                                            !.recv_size = @ + n,
                                            !.received = @ + n]
                /\ wire' = [wire EXCEPT !.to_client = @ - n]
       ELSE /\ client' = [client EXCEPT !.pc = "loop"]
            /\ UNCHANGED wire
    /\ UNCHANGED <<pingRest, server,
                   muxer, blocking, sockets>>

\* server(): the test of the outer loop, receive_async and the lines up to the inner loop
ServerReceive ==
    /\ server.pc = "loop"
    /\ IF server.total_size < packet_size * packet_count
       THEN LET recv_size == Min(packet_size, packet_size * packet_count - server.total_size)
            IN /\ wire.to_server > 0
               /\ \E n \in transferred(recv_size, wire.to_server) :
                    /\ server' = [server EXCEPT !.recv_size = recv_size,
                                                !.result = n,
                                                !.total_size = @ + n,
                                                !.sent_size = 0,
                                                !.pc = "inner"]
                    /\ wire' = [wire EXCEPT !.to_server = @ - n]
       ELSE /\ server' = [server EXCEPT !.pc = "done"]
            /\ UNCHANGED wire
    /\ UNCHANGED <<pingRest, client,
                   muxer, blocking, sockets>>

\* server(): the test of the inner loop and its body, one send_async
ServerSend ==
    /\ server.pc = "inner"
    /\ IF server.sent_size < server.result
       THEN \E n \in transferred(server.recv_size - server.sent_size,
                                 server.recv_size - server.sent_size) :
                /\ server' = [server EXCEPT !.result = n,
                                            !.sent_size = @ + n,
                                            !.echoed = @ + n]
                /\ wire' = [wire EXCEPT !.to_client = @ + n]
       ELSE /\ server' = [server EXCEPT !.pc = "loop"]
            /\ UNCHANGED wire
    /\ UNCHANGED <<pingRest, client,
                   muxer, blocking, sockets>>

\* ------------------------------------------------------------ ip_address, inet_address

\* the conversions applied one after the other to an address
MaxConversions == 2
\* kernel completion queues created in one run
MaxQueues == 3
\* tcp_stream and tcp_server objects of the user's code
MaxObjects == 3

\* the bytes the addresses of the model are made of
ByteValues == {0, 1, 255}

\* the 16-bit values made of two such bytes
WordValues == {256 * h + l : h \in ByteValues, l \in ByteValues}

\* the ports of the model: 1, 23333 (the port of the tests) and the largest
PortValues == {1, 23333, 65535}

Zeros(n) == [i \in 1..n |-> 0]

Range(q) == {q[i] : i \in DOMAIN q}

\* m_addr is a union of byte, 16-bit and 32-bit arrays over the same 16 bytes:
\* the model keeps the bytes, u8[i] is byte i of them
u8(m, i) == m[i + 1]

\* u16[i] read from the union: the two bytes taken in the order of the host
u16(e, m, i) ==
    IF e = "little" THEN m[2 * i + 1] + 256 * m[2 * i + 2]
                    ELSE 256 * m[2 * i + 1] + m[2 * i + 2]

\* the two bytes that an assignment to a 16-bit element writes
store16(e, value) ==
    IF e = "little" THEN <<value % 256, value \div 256>>
                    ELSE <<value \div 256, value % 256>>

\* detail::to_network_endian(std::uint16_t)
to_network_endian(e, value) ==
    IF e = "little" THEN ((value \div 256) + (value * 256)) % 65536 ELSE value

\* detail::to_host_endian(std::uint16_t)
to_host_endian(e, value) ==
    IF e = "little" THEN ((value \div 256) + (value * 256)) % 65536 ELSE value

\* ip_address::ip_address(v0, v1, v2, v3)
ip_address_v4(v0, v1, v2, v3) ==
    [m_is_v6 |-> FALSE, m_addr |-> <<v0, v1, v2, v3>> \o Zeros(12)]

\* ip_address::ip_address(v0, ..., v7), v the eight 16-bit values
ip_address_v6(e, v) ==
    [m_is_v6 |-> TRUE,
     m_addr |-> store16(e, to_network_endian(e, v[1])) \o store16(e, to_network_endian(e, v[2]))
             \o store16(e, to_network_endian(e, v[3])) \o store16(e, to_network_endian(e, v[4]))
             \o store16(e, to_network_endian(e, v[5])) \o store16(e, to_network_endian(e, v[6]))
             \o store16(e, to_network_endian(e, v[7])) \o store16(e, to_network_endian(e, v[8]))]

\* ip_address::operator==
ip_address_eq(a, b) ==
    /\ a.m_is_v6 = b.m_is_v6
    /\ IF ~a.m_is_v6 THEN SubSeq(a.m_addr, 1, 4) = SubSeq(b.m_addr, 1, 4)
                     ELSE a.m_addr = b.m_addr

\* ip_address::is_ipv4_mapped_ipv6
is_ipv4_mapped_ipv6(e, a) ==
    /\ a.m_is_v6
    /\ \A i \in 0..4 : u16(e, a.m_addr, i) = to_network_endian(e, 0)
    /\ u16(e, a.m_addr, 5) = to_network_endian(e, 65535)

\* a to_ipv4 that returns every address as it is
to_ipv4_self(e, a) == a

\* ip_address::to_ipv4
to_ipv4(e, a) ==
    IF ~a.m_is_v6 THEN a
    ELSE ip_address_v4(u8(a.m_addr, 12), u8(a.m_addr, 13), u8(a.m_addr, 14), u8(a.m_addr, 15))

\* ip_address::to_ipv6
to_ipv6(e, a) ==
    IF a.m_is_v6 THEN a
    ELSE ip_address_v6(e, <<0, 0, 0, 0, 0, 65535, u16(e, a.m_addr, 0), u16(e, a.m_addr, 1)>>)

\* no inet_address has been constructed
NoInet == [m_family |-> "none", m_port |-> 0, address |-> Zeros(16)]

\* inet_address::inet_address(ip, port): the bytes of the address are copied
inet_address(e, a, port) ==
    [m_family |-> IF a.m_is_v6 THEN "AF_INET6" ELSE "AF_INET",
     m_port |-> to_network_endian(e, port),
     address |-> IF a.m_is_v6 THEN a.m_addr ELSE SubSeq(a.m_addr, 1, 4) \o Zeros(12)]

\* inet_address::ip_address
inet_address_ip_address(e, s) ==
    IF s.m_family = "AF_INET"
    THEN ip_address_v4(u8(s.address, 0), u8(s.address, 1), u8(s.address, 2), u8(s.address, 3))
    ELSE ip_address_v6(e, [i \in 1..8 |-> u16(e, s.address, i - 1)])

\* inet_address::port
inet_address_port(e, s) == to_host_endian(e, s.m_port)

\* inet_address::set_port
set_port(e, s, port) == [s EXCEPT !.m_port = to_network_endian(e, port)]

\* nothing has been called on the address yet
NotConverted == [ops |-> <<>>, value |-> ip_address_v4(0, 0, 0, 0), port |-> 0, answer |-> FALSE]

\* the code under study makes no address
NoAddress ==
    /\ native = "little"
    /\ ip = ip_address_v4(0, 0, 0, 0)
    /\ port_arg = 1
    /\ inet = NoInet
    /\ converted = NotConverted

\* the IPv4 addresses of the model
V4Addresses ==
    {ip_address_v4(v0, v1, v2, v3) : v0 \in ByteValues, v1 \in ByteValues,
                                      v2 \in ByteValues, v3 \in ByteValues}

\* the first six 16-bit values of the IPv6 addresses of the model: IPv4-mapped,
\* all zero, multicast (FF00::) and 2001:DB8::
V6Prefixes ==
    {<<0, 0, 0, 0, 0, 65535>>, <<0, 0, 0, 0, 0, 0>>,
     <<65280, 0, 0, 0, 0, 0>>, <<8193, 3512, 0, 0, 0, 0>>}

\* the IPv6 addresses of the model, made by the constructor of the host
V6Addresses(e) ==
    {ip_address_v6(e, pre \o <<v6, v7>>) : pre \in V6Prefixes,
                                           v6 \in WordValues, v7 \in WordValues}

\* the address the next conversion is called on
Operand == IF converted.ops = <<>> THEN ip ELSE converted.value

addrRest == <<frameVars, workerVars, poolVars, terminated, stop_called, last_error,
              caller_pc, open_fds, stream, connect_awaitable, ctor_count,
              hardware_concurrency, client, server, wire>>

\* inet_address address(ip, port)
MakeInetAddress ==
    /\ inet = NoInet
    /\ inet' = inet_address(native, ip, port_arg)
    /\ UNCHANGED <<addrRest, native, ip, port_arg, converted,
                   client, server, wire,
                   muxer, blocking, sockets>>

\* address.set_port(port)
SetPort ==
    /\ inet # NoInet
    /\ \E port \in PortValues \ {port_arg} :
        /\ port_arg' = port
        /\ inet' = set_port(native, inet, port)
    /\ UNCHANGED <<addrRest, native, ip, converted,
                   client, server, wire,
                   muxer, blocking, sockets>>

\* address.ip_address() and address.port()
ReadInetAddress ==
    /\ inet # NoInet
    /\ converted' = [ops |-> <<"ip_address">>,
                     value |-> inet_address_ip_address(native, inet),
                     port |-> inet_address_port(native, inet),
                     answer |-> FALSE]
    /\ UNCHANGED <<addrRest, native, ip, port_arg, inet,
                   client, server, wire,
                   muxer, blocking, sockets>>

\* a.to_ipv4(), a the user's address or what the last conversion returned
ToIpv4 ==
    /\ Len(converted.ops) < MaxConversions
    /\ Range(converted.ops) \subseteq {"to_ipv4", "to_ipv6"}
    /\ converted' = [ops |-> Append(converted.ops, "to_ipv4"),
                     value |-> to_ipv4(native, Operand),
                     port |-> 0,
                     answer |-> FALSE]
    /\ UNCHANGED <<addrRest, native, ip, port_arg, inet,
                   client, server, wire,
                   muxer, blocking, sockets>>

\* a.to_ipv6(), a the user's address or what the last conversion returned
ToIpv6 ==
    /\ Len(converted.ops) < MaxConversions
    /\ Range(converted.ops) \subseteq {"to_ipv4", "to_ipv6"}
    /\ converted' = [ops |-> Append(converted.ops, "to_ipv6"),
                     value |-> to_ipv6(native, Operand),
                     port |-> 0,
                     answer |-> FALSE]
    /\ UNCHANGED <<addrRest, native, ip, port_arg, inet,
                   client, server, wire,
                   muxer, blocking, sockets>>

\* a.is_ipv4_mapped_ipv6(), a the user's address or what the last conversion returned
IsIpv4MappedIpv6 ==
    /\ Len(converted.ops) < MaxConversions
    /\ Range(converted.ops) \subseteq {"to_ipv4", "to_ipv6"}
    /\ converted' = [ops |-> Append(converted.ops, "is_ipv4_mapped_ipv6"),
                     value |-> Operand,
                     port |-> 0,
                     answer |-> is_ipv4_mapped_ipv6(native, Operand)]
    /\ UNCHANGED <<addrRest, native, ip, port_arg, inet,
                   client, server, wire,
                   muxer, blocking, sockets>>

\* io_context::io_context(): as many workers as logical cores, at least one
io_context_default(cores) == IF cores > 1 THEN cores ELSE 1

\* a constructor that takes the count as it is
io_context_count_raw(count, cores) == count

\* io_context::io_context(std::size_t count)
io_context_count(count, cores) ==
    IF count # 0 THEN count ELSE (IF cores > 1 THEN cores ELSE 1)

\* io_context ctx(n) with n > 0 workers, as the tests construct it
CountGiven ==
    /\ hardware_concurrency = 1
    /\ ctor_count = m_worker_count

\* ------------------------- construction and destruction of a worker's queue
\* io_context_worker objects constructed and destroyed by the user's code. A
\* kernel completion queue (an io_uring instance, an I/O completion port) is
\* named by a number from 1, never reused; 0 is a null m_muxer.
Queues == 1..MaxQueues

\* what an io_uring read from uninitialised storage may name: no queue of the
\* process (0), a queue of the process, or mappings whose unmapping faults (-1)
Garbage == {-1, 0} \cup Queues

NoWorker == [state |-> "none", m_muxer |-> 0]
NoMuxer == [worker |-> [w \in Workers |-> NoWorker], queues |-> {}, made |-> 0]

\* a destructor that tears down the queue the constructor stored
teardown_stored(plat, m_muxer, fresh) == m_muxer

\* ~io_context_worker: the queue handed to CloseHandle or io_uring_queue_exit.
\* On Windows it is m_muxer; on Linux it is the io_uring the destructor has
\* just allocated with malloc, whose contents are `fresh`
teardown(plat, m_muxer, fresh) ==
    IF plat = "windows" THEN m_muxer ELSE fresh

\* io_context_worker::io_context_worker: the queue is created and stored, or
\* the constructor throws std::system_error and no object exists
WorkerConstruct(w) ==
    /\ ~terminated
    /\ muxer.worker[w].state # "alive"
    /\ muxer.made < MaxQueues
    /\ \E ok \in BOOLEAN :
         LET q == muxer.made + 1
         IN  muxer' = IF ok
                      THEN [worker |-> [muxer.worker EXCEPT
                                          ![w] = [state |-> "alive", m_muxer |-> q]],
                            queues |-> muxer.queues \cup {q},
                            made |-> q]
                      ELSE [muxer EXCEPT !.worker[w] = [state |-> "threw", m_muxer |-> 0]]
    /\ UNCHANGED <<frameVars, workerVars, poolVars, terminated, stop_called, last_error,
                   caller_pc, open_fds, stream, connect_awaitable, ctor_count,
                   hardware_concurrency, native, ip, port_arg, inet, converted,
                   client, server, wire, blocking, sockets>>

\* io_context_worker::~io_context_worker of a worker that is not running
WorkerDestroy(w) ==
    /\ ~terminated
    /\ muxer.worker[w].state = "alive"
    /\ \E fresh \in Garbage :
         LET q == teardown(platform, muxer.worker[w].m_muxer, fresh)
         IN  /\ terminated' = (q = -1)
             /\ muxer' = [muxer EXCEPT !.worker[w].state = "gone",
                                       !.queues = @ \ {q}]
    /\ UNCHANGED <<frameVars, workerVars, poolVars, stop_called, last_error,
                   caller_pc, open_fds, stream, connect_awaitable, ctor_count,
                   hardware_concurrency, native, ip, port_arg, inet, converted,
                   client, server, wire, blocking, sockets>>

\* ------------------------------------ tcp_stream::connect, the blocking call
\* the sa_family of an inet_address: the default-constructed one (0) holds
\* family 0, address 1 is an IPv4 and address 2 an IPv6 address
family(a) == IF a = 0 THEN "unspec" ELSE IF a = 1 THEN "inet" ELSE "inet6"

\* no blocking connect has been called: the address passed, the error code
\* returned, the local `s`, and the destination and the outcome of the
\* connect request the system was given
NoCall == [arg |-> 0, result |-> 0, s |-> invalid_socket, dest |-> 0, os |-> "none"]

\* auto *addr = reinterpret_cast<sockaddr *>(&m_address): the address whose
\* family the socket is created for and that the socket is connected to
connect_addr(st, address) == st.m_address

\* the test the code makes on what ::connect (0 or -1) or WSAConnect (0 or
\* SOCKET_ERROR) returned, true when the code takes the call to have failed:
\* `== -1` on Linux, `== FALSE` on Windows
connect_failed(plat, ret) == IF plat = "linux" THEN ret = -1 ELSE ret = 0

\* socket(AF_UNSPEC, SOCK_STREAM, IPPROTO_TCP) fails on Linux
socket_supported(plat, fam) == plat = "windows" \/ fam # "unspec"

\* tcp_stream::connect(const inet_address &address)
Connect ==
    /\ ~terminated
    /\ connect_awaitable.state = "none"
    /\ \E address \in Addresses, setup \in {"ok", "no_socket", "fail"},
          ret \in {0, -1}, resets \in BOOLEAN :
         LET addr == connect_addr(stream, address)
             s == IF setup = "no_socket" \/ ~socket_supported(platform, family(addr))
                  THEN invalid_socket ELSE new_socket(platform, open_fds)
             \* the error the thread's last-error value holds after the request
             error == IF ret = -1 THEN WSAECONNRESET
                      ELSE IF resets THEN 0 ELSE last_error[1]
         IN  /\ setup = "fail" => platform = "windows"
             /\ addr = 0 => ret = -1
             /\ IF s = invalid_socket
                THEN /\ blocking' = [NoCall EXCEPT !.arg = address, !.result = -1]
                     /\ UNCHANGED <<stream, open_fds, last_error>>
                ELSE IF setup = "fail"
                THEN /\ blocking' = [NoCall EXCEPT !.arg = address, !.s = s,
                                                   !.result = WSAECONNRESET]
                     /\ last_error' = [last_error EXCEPT ![1] = WSAECONNRESET]
                     /\ UNCHANGED <<stream, open_fds>>
                ELSE IF connect_failed(platform, ret)
                THEN /\ blocking' = [arg |-> address, s |-> s, dest |-> addr,
                                     os |-> IF ret = 0 THEN "done" ELSE "failed",
                                     result |-> IF platform = "linux" THEN -1 ELSE error]
                     /\ last_error' = IF platform = "linux" THEN last_error
                                      ELSE [last_error EXCEPT ![1] = error]
                     /\ UNCHANGED <<stream, open_fds>>
                ELSE /\ blocking' = [arg |-> address, s |-> s, dest |-> addr,
                                     os |-> IF ret = 0 THEN "done" ELSE "failed",
                                     result |-> 0]
                     /\ open_fds' = (IF stream.m_socket # invalid_socket
                                     THEN close(open_fds, stream.m_socket)
                                     ELSE open_fds) \cup {s}
                     /\ stream' = [m_socket |-> s, m_address |-> address]
                     /\ last_error' = IF platform = "linux" THEN last_error
                                      ELSE [last_error EXCEPT ![1] = error]
    /\ UNCHANGED <<frameVars, workerVars, poolVars, terminated, stop_called,
                   caller_pc, connect_awaitable, ctor_count, hardware_concurrency,
                   native, ip, port_arg, inet, converted, client, server, wire,
                   muxer, sockets>>

\* -------------------------------- ownership of sockets (tcp_stream, tcp_server)
\* Objects of the two classes, made, moved, closed and destroyed by the user's
\* code. A socket of the system is named by a number from 1, never reused, so
\* that a second close of the same socket can be told from the first.
Objects == 1..MaxObjects
SocketIds == 1..MaxSockets
ObjectKinds == {"tcp_stream", "tcp_server"}

NoObject == [state |-> "none", kind |-> "tcp_stream", m_socket |-> invalid_socket]
NoOp == [op |-> "none", to |-> 0, from |-> 0]
NoSockets ==
    [obj |-> [o \in Objects |-> NoObject], closes |-> [i \in SocketIds |-> 0],
     made |-> 0, last |-> NoOp]

\* tcp_stream::close and tcp_server::close
object_close(S, o) ==
    IF S.obj[o].m_socket # invalid_socket
    THEN [S EXCEPT !.closes[S.obj[o].m_socket] = @ + 1,
                   !.obj[o].m_socket = invalid_socket]
    ELSE S

\* tcp_stream() and tcp_server()
default_construct(S, n, k) ==
    [S EXCEPT !.obj[n] = [state |-> "alive", kind |-> k, m_socket |-> invalid_socket]]

\* tcp_stream(std::uintptr_t socket, const inet_address &), the object that
\* accept returns for the socket the system has just made
adopt(S, n) ==
    [S EXCEPT !.obj[n] = [state |-> "alive", kind |-> "tcp_stream", m_socket |-> S.made + 1],
              !.made = @ + 1]

\* the end of a successful tcp_server::bind: close(); m_socket = s
bind(S, o) ==
    LET s == S.made + 1
        S1 == object_close(S, o)
    IN  [S1 EXCEPT !.obj[o].m_socket = s, !.made = s]

\* a move constructor that copies the socket and leaves the source as it is
socket_move_construct_copy(S, n, o) ==
    [S EXCEPT !.obj[n] = [state |-> "alive", kind |-> S.obj[o].kind,
                          m_socket |-> S.obj[o].m_socket]]

\* tcp_stream(tcp_stream &&other) and tcp_server(tcp_server &&other)
socket_move_construct(S, n, o) ==
    [S EXCEPT !.obj[n] = [state |-> "alive", kind |-> S.obj[o].kind,
                          m_socket |-> S.obj[o].m_socket],
              !.obj[o].m_socket = invalid_socket]

\* operator=(tcp_stream &&other) and operator=(tcp_server &&other)
socket_move_assign(S, t, o) ==
    IF t = o THEN S
    ELSE LET S1 == object_close(S, t)
         IN  [S1 EXCEPT !.obj[t].m_socket = S1.obj[o].m_socket,
                        !.obj[o].m_socket = invalid_socket]

\* ~tcp_stream and ~tcp_server
destroy(S, o) == [object_close(S, o) EXCEPT !.obj[o].state = "gone"]

socketRest == <<frameVars, workerVars, poolVars, terminated, stop_called, last_error,
                caller_pc, open_fds, stream, connect_awaitable, ctor_count,
                hardware_concurrency, native, ip, port_arg, inet, converted,
                client, server, wire, muxer, blocking>>

Alive(o) == sockets.obj[o].state = "alive"
Unused(o) == sockets.obj[o].state = "none"
Did(S, name, t, o) == [S EXCEPT !.last = [op |-> name, to |-> t, from |-> o]]

SocketDefaultConstruct(n) ==
    /\ Unused(n)
    /\ \E k \in ObjectKinds :
         sockets' = Did(default_construct(sockets, n, k), "construct", n, 0)
    /\ UNCHANGED socketRest

\* tcp_server::accept or the end of a co_await on accept_async, successful
Accept(n) ==
    /\ Unused(n)
    /\ sockets.made < MaxSockets
    /\ sockets' = Did(adopt(sockets, n), "accept", n, 0)
    /\ UNCHANGED socketRest

\* tcp_server::bind, successful (one that fails closes the socket it made
\* and leaves the server as it was)
Bind(o) ==
    /\ Alive(o)
    /\ sockets.obj[o].kind = "tcp_server"
    /\ sockets.made < MaxSockets
    /\ sockets' = Did(bind(sockets, o), "bind", o, 0)
    /\ UNCHANGED socketRest

SocketMoveConstruct(n, o) ==
    /\ Unused(n)
    /\ Alive(o)
    /\ sockets' = Did(socket_move_construct(sockets, n, o), "move_construct", n, o)
    /\ UNCHANGED socketRest

SocketMoveAssign(t, o) ==
    /\ Alive(t)
    /\ Alive(o)
    /\ sockets.obj[t].kind = sockets.obj[o].kind
    /\ sockets' = Did(socket_move_assign(sockets, t, o), "move_assign", t, o)
    /\ UNCHANGED socketRest

Close(o) ==
    /\ Alive(o)
    /\ sockets' = Did(object_close(sockets, o), "close", o, 0)
    /\ UNCHANGED socketRest

Destroy(o) ==
    /\ Alive(o)
    /\ sockets' = Did(destroy(sockets, o), "destroy", o, 0)
    /\ UNCHANGED socketRest

\* ------------------------------------------------------------ specifications
InitCommon ==
    /\ frame = [f \in Frames |-> NoFrame]
    /\ fut = [h \in Handles |-> -1]
    /\ wpc = [w \in Workers |-> "off"]
    /\ worker_is_running = [w \in Workers |-> FALSE]
    /\ m_should_stop = [w \in Workers |-> FALSE]
    /\ m_tasks = [w \in Workers |-> <<>>]
    /\ tasks = [w \in Workers |-> <<>>]
    /\ idx = [w \in Workers |-> 0]
    /\ stack_bottom = [w \in Workers |-> 0]
    /\ cur = [w \in Workers |-> 0]
    /\ cq = [w \in Workers |-> <<>>]
    /\ inflight = [w \in Workers |-> {}]
    /\ ctx_is_running = FALSE
    /\ pool_pc = "idle"
    /\ terminated = FALSE
    /\ stop_called = FALSE
    /\ last_error = [w \in Workers |-> 0]
    /\ caller_pc = [c \in Callers |-> "idle"]
    /\ stream = tcp_stream
    /\ connect_awaitable = NoAwaitable
    /\ muxer = NoMuxer
    /\ blocking = NoCall
    /\ sockets = NoSockets

\* in Spec the code outside the tasks keeps one future at a time, in the first object
OnlyFuture(h) == \A o \in Handles : fut[o] = -1 /\ h <= o

\* io_context ctx(1): the pool of the tests
Init ==
    /\ InitCommon
    /\ open_fds = {}
    /\ platform = "linux"
    /\ m_worker_count = 1
    /\ CountGiven
    /\ NoAddress
    /\ NoPingPong
    /\ frame_limit = MaxFrames

TaskStep(w) ==
    \/ CallChild(w)
    \/ AwaitReady(w)
    \/ AwaitSuspend(w)
    \/ DropChild(w)
    \/ Return(w)
    \/ Throw(w)
    \/ AwaitIOSync(w)
    \/ AwaitIOPending(w)
    \/ ScheduleNew(w)
    \/ StopFromTask(w)

WorkerStep(w) ==
    \/ WorkerRunEnter(w)
    \/ WorkerRunInit(w)
    \/ WorkerLoopTop(w)
    \/ WorkerWait(w)
    \/ WorkerSwap(w)
    \/ WorkerResume(w)
    \/ WorkerCheck(w)
    \/ WorkerEndIteration(w)
    \/ WorkerLeave(w)

Next ==
    \/ Dispatch
    \/ \E h \in Handles : OnlyFuture(h) /\ Factory(h)
    \/ \E h \in Handles, w \in Workers : ScheduleCopy(h, w)
    \/ \E h \in Handles : DestroyFuture(h)
    \/ RunCall
    \/ RunReturn
    \/ \E w \in Workers : TaskStep(w)
    \/ \E w \in Workers : WorkerStep(w)

Spec == Init /\ [][Next]_vars

\* the operations of future<T> alone, on frames that are never run
HandleNext ==
    \/ \E h \in Handles : Factory(h)
    \/ \E h \in Handles : DefaultConstruct(h)
    \/ \E h, o \in Handles : CopyConstruct(h, o)
    \/ \E h, o \in Handles : MoveConstruct(h, o)
    \/ \E h, o \in Handles : CopyAssign(h, o)
    \/ \E h, o \in Handles : MoveAssign(h, o)
    \/ \E h \in Handles : DestroyFuture(h)
    \/ \E h \in Handles : Detach(h)
    \/ \E f \in Frames : ReleaseDetached(f)

HandleSpec == Init /\ [][HandleNext]_vars

\* io_context ctx(MaxWorkers): several workers, one dispatched task each, and a
\* thread outside the pool that may call stop at any time
PoolInit ==
    /\ InitCommon
    /\ open_fds = {}
    /\ platform = "linux"
    /\ m_worker_count = MaxWorkers
    /\ CountGiven
    /\ NoAddress
    /\ NoPingPong
    /\ frame_limit = PoolFrames

PoolTaskStep(w) ==
    \/ Return(w)
    \/ AwaitIOPending(w)
    \/ StopFromTask(w)

PoolNext ==
    \/ Dispatch
    \/ RunCall
    \/ RunReturn
    \/ StopCall
    \/ \E w \in Workers : PoolTaskStep(w)
    \/ \E w \in Workers : WorkerStep(w)

PoolSpec == PoolInit /\ [][PoolNext]_vars

\* Every thread that can take a step eventually takes one: the wait of the
\* loop is bounded by its timeout, and a resumed task runs until it suspends
\* or ends.
PoolFairness ==
    /\ \A w \in Workers : WF_vars(WorkerStep(w))
    /\ \A w \in Workers : WF_vars(PoolTaskStep(w))
    /\ WF_vars(RunReturn)

FairPoolSpec == PoolSpec /\ PoolFairness

\* io_context ctx(n) for each pool size, with dispatch called one or more times
\* before run and tasks that do I/O, return or stop the pool
DispatchInit ==
    /\ InitCommon
    /\ open_fds = {}
    /\ platform = "linux"
    /\ m_worker_count \in 1..MaxWorkers
    /\ CountGiven
    /\ NoAddress
    /\ NoPingPong
    /\ frame_limit = MaxFrames

DispatchTaskStep(w) ==
    \/ Return(w)
    \/ AwaitIOSync(w)
    \/ AwaitIOPending(w)
    \/ StopFromTask(w)

DispatchNext ==
    \/ Dispatch
    \/ RunCall
    \/ RunReturn
    \/ \E w \in Workers : DispatchTaskStep(w)
    \/ \E w \in Workers : WorkerStep(w)

DispatchSpec == DispatchInit /\ [][DispatchNext]_vars

\* io_context ctx(1) with dispatched tasks that call tasks, await them once or
\* again, do I/O, return, fail or stop the pool; no future object is kept
\* outside the tasks
TaskInit ==
    /\ InitCommon
    /\ open_fds = {}
    /\ platform = "linux"
    /\ m_worker_count = 1
    /\ CountGiven
    /\ NoAddress
    /\ NoPingPong
    /\ frame_limit = MaxFrames

TaskBodyStep(w) ==
    \/ CallChild(w)
    \/ AwaitReady(w)
    \/ AwaitSuspend(w)
    \/ DropChild(w)
    \/ Return(w)
    \/ Throw(w)
    \/ AwaitIOSync(w)
    \/ AwaitIOPending(w)
    \/ StopFromTask(w)

TaskNext ==
    \/ Dispatch
    \/ RunCall
    \/ RunReturn
    \/ \E w \in Workers : TaskBodyStep(w)
    \/ \E w \in Workers : WorkerStep(w)

TaskSpec == TaskInit /\ [][TaskNext]_vars

\* io_context ctx(1) with tasks that do I/O, return or stop the pool, and a
\* thread outside the pool that calls stop at any time
LoopInit ==
    /\ InitCommon
    /\ open_fds = {}
    /\ platform = "linux"
    /\ m_worker_count = 1
    /\ CountGiven
    /\ NoAddress
    /\ NoPingPong
    /\ frame_limit = PoolFrames

LoopTaskStep(w) ==
    \/ Return(w)
    \/ AwaitIOPending(w)
    \/ StopFromTask(w)

LoopNext ==
    \/ Dispatch
    \/ RunCall
    \/ RunReturn
    \/ StopCall
    \/ \E w \in Workers : LoopTaskStep(w)
    \/ \E w \in Workers : WorkerStep(w)

LoopSpec == LoopInit /\ [][LoopNext]_vars

\* a pool of MaxWorkers - 1 workers and a standalone worker, whose run() is
\* called by several threads at once; the pool's tasks return at once and the
\* pool is stopped from outside
RunnerInit ==
    /\ InitCommon
    /\ open_fds = {}
    /\ platform = "linux"
    /\ m_worker_count = MaxWorkers - 1
    /\ CountGiven
    /\ NoAddress
    /\ NoPingPong
    /\ frame_limit = PoolFrames

RunnerNext ==
    \/ ~ctx_is_running /\ Dispatch
    \/ \E c \in Callers : PoolRunBy(c)
    \/ \E c \in Callers : PoolReturnBy(c)
    \/ \E c \in Callers : WorkerRunBy(c)
    \/ \E c \in Callers : WorkerInitBy(c)
    \/ \E c \in Callers : WorkerLoopBy(c)
    \/ \E c \in Callers : WorkerLeaveBy(c)
    \/ StopStandalone
    \/ StopCall
    \/ \E w \in Workers : Return(w)
    \/ \E w \in Workers : WorkerStep(w)

RunnerSpec == RunnerInit /\ [][RunnerNext]_vars

\* a task that connects one tcp_stream again and again, on either build, in a
\* process started with descriptor 0 open (standard input) or closed
ConnectInit ==
    /\ InitCommon
    /\ platform \in {"linux", "windows"}
    /\ open_fds \in {{}, {0}}
    /\ m_worker_count = 1
    /\ CountGiven
    /\ NoAddress
    /\ NoPingPong
    /\ frame_limit = 0

ConnectNext ==
    \/ ConnectAsync
    \/ ConnectCompleted
    \/ ConnectResume

ConnectSpec == ConnectInit /\ [][ConnectNext]_vars

\* a pool constructed with any count or with none, on a machine with any
\* number of logical cores, then given tasks, run and stopped
CountInit ==
    /\ InitCommon
    /\ open_fds = {}
    /\ platform = "linux"
    /\ hardware_concurrency \in 0..MaxWorkers
    /\ ctor_count \in -1..MaxWorkers
    /\ m_worker_count = IF ctor_count = -1
                        THEN io_context_default(hardware_concurrency)
                        ELSE io_context_count(ctor_count, hardware_concurrency)
    /\ NoAddress
    /\ NoPingPong
    /\ frame_limit = MaxWorkers

CountNext ==
    \/ Dispatch
    \/ RunCall
    \/ RunReturn
    \/ StopCall
    \/ \E w \in Workers : Return(w)
    \/ \E w \in Workers : WorkerStep(w)

CountSpec == CountInit /\ [][CountNext]_vars

\* the connection of the test is made: client() and server() are at their loops
PingPongInit ==
    /\ InitCommon
    /\ open_fds = {}
    /\ platform = "linux"
    /\ m_worker_count = 1
    /\ CountGiven
    /\ NoAddress
    /\ frame_limit = 0
    /\ client = NewClient
    /\ server = NewServer
    /\ wire = NewWire

PingPongNext ==
    \/ ClientSend
    \/ ClientReceive
    \/ ServerReceive
    \/ ServerSend

PingPongSpec == PingPongInit /\ [][PingPongNext]_vars

\* every address and port of the model on a little- and on a big-endian host
AddressInit ==
    /\ InitCommon
    /\ open_fds = {}
    /\ platform = "linux"
    /\ m_worker_count = 1
    /\ CountGiven
    /\ frame_limit = 0
    /\ native \in {"little", "big"}
    /\ ip \in V4Addresses \cup V6Addresses(native)
    /\ port_arg \in PortValues
    /\ inet = NoInet
    /\ converted = NotConverted
    /\ NoPingPong

AddressNext ==
    \/ MakeInetAddress
    \/ SetPort
    \/ ReadInetAddress
    \/ ToIpv4
    \/ ToIpv6
    \/ IsIpv4MappedIpv6

AddressSpec == AddressInit /\ [][AddressNext]_vars

\* io_context ctx(1) on either build, with dispatched tasks that await the
\* accept, connect, send and receive awaiters
AwaiterInit ==
    /\ InitCommon
    /\ open_fds = {}
    /\ platform \in {"linux", "windows"}
    /\ m_worker_count = 1
    /\ CountGiven
    /\ NoAddress
    /\ NoPingPong
    /\ frame_limit = PoolFrames

AwaiterTaskStep(w) ==
    \/ AwaitIO(w)
    \/ Return(w)
    \/ StopFromTask(w)

AwaiterNext ==
    \/ Dispatch
    \/ RunCall
    \/ RunReturn
    \/ \E w \in Workers : AwaiterTaskStep(w)
    \/ \E w \in Workers : WorkerStep(w)

AwaiterSpec == AwaiterInit /\ [][AwaiterNext]_vars

\* io_context ctx(1) with dispatched tasks whose bodies end by co_return: the
\* pool of tests/future.cpp
OneInit ==
    /\ InitCommon
    /\ open_fds = {}
    /\ platform = "linux"
    /\ m_worker_count = 1
    /\ CountGiven
    /\ NoAddress
    /\ NoPingPong
    /\ frame_limit = PoolFrames

OneTaskStep(w) ==
    \/ CallChild(w)
    \/ AwaitReady(w)
    \/ AwaitSuspend(w)
    \/ DropChild(w)
    \/ Return(w)
    \/ AwaitIOSync(w)
    \/ AwaitIOPending(w)
    \/ ScheduleNew(w)
    \/ StopFromTask(w)

OneNext ==
    \/ Dispatch
    \/ RunCall
    \/ RunReturn
    \/ \E w \in Workers : OneTaskStep(w)
    \/ \E w \in Workers : WorkerStep(w)

OneSpec == OneInit /\ [][OneNext]_vars

\* The worker thread keeps running, a task body that does not suspend reaches
\* its co_return, and the thread in io_context::run returns from its joins.
OneFairness ==
    /\ \A w \in Workers : WF_vars(WorkerStep(w))
    /\ \A w \in Workers : WF_vars(Return(w))
    /\ WF_vars(RunReturn)

FairOneSpec == OneSpec /\ OneFairness

\* io_context ctx(1) running chains of tasks as in tests/future.cpp: a task
\* either returns a value of its own, or awaits a task it calls and returns
\* what the await gave it; a task that cannot return that value drops the
\* future at the end of the await expression and goes on.
ChainInit ==
    /\ InitCommon
    /\ open_fds = {}
    /\ platform = "linux"
    /\ m_worker_count = 1
    /\ CountGiven
    /\ NoAddress
    /\ NoPingPong
    /\ frame_limit = MaxFrames

ChainTaskStep(w) ==
    \/ CallChild(w)
    \/ AwaitSuspend(w)
    \/ ReturnAwaited(w)
    \/ Running(w) /\ ~PassThrough(cur[w]) /\ frame[cur[w]].got.tag # "none" /\ DropChild(w)
    \/ Running(w) /\ frame[cur[w]].child = 0 /\ Return(w)
    \/ StopFromTask(w)

ChainNext ==
    \/ Dispatch
    \/ RunCall
    \/ RunReturn
    \/ \E w \in Workers : ChainTaskStep(w)
    \/ \E w \in Workers : WorkerStep(w)

ChainSpec == ChainInit /\ [][ChainNext]_vars


\* ------------------------------------------------------------- properties
\* the outside future objects that refer to frame f
HandlesOf(f) == {h \in Handles : fut[h] = f}

\* the frames that hold a future on frame f as a local
HoldersOf(f) == {g \in Frames : frame[g].child = f}

\* C1: a frame starts with reference count 1, every live frame has a count of
\* at least 1, and a frame is destroyed by the release that takes its count
\* from 1 to 0: not before, not after, and only once.
C1_RefCountLifetime ==
    /\ [](\A f \in Frames :
            /\ Live(f) => frame[f].m_reference_count >= 1
            /\ frame[f].state = "destroyed" => frame[f].m_reference_count = 0)
    /\ [][\A f \in Frames :
            /\ (frame[f].state = "none" /\ frame'[f].state # "none")
                 => frame'[f].state = "initial" /\ frame'[f].m_reference_count = 1
            /\ (Live(f) /\ frame'[f].state = "destroyed")
                 => frame[f].m_reference_count = 1
            /\ (Live(f) /\ frame'[f].m_reference_count = 0)
                 => frame'[f].state = "destroyed"
            /\ frame[f].state = "destroyed" => frame'[f] = frame[f]]_vars

\* a frame the loop released to 0 while another frame is still counted
C1_Witness ==
    \E f, g \in Frames :
        /\ frame[f].state = "destroyed" /\ frame[f].reaped = 1
        /\ Live(g) /\ frame[g].m_reference_count = 2

\* C2: the reference count of a frame is the number of non-null future objects
\* on it plus the ownerships detached from futures and not yet released; a
\* destroyed frame has no owner left.
C2_CountIsOwners ==
    \A f \in Frames :
        /\ frame[f].state # "none"
             => frame[f].m_reference_count
                  = Cardinality(HandlesOf(f)) + Cardinality(HoldersOf(f)) + frame[f].detached
        /\ frame[f].state = "none" => HandlesOf(f) = {}

\* two future objects and a detached ownership on one frame, next to a frame
\* whose last owner is gone
C2_Witness ==
    \E f, g \in Frames :
        /\ Cardinality(HandlesOf(f)) = 2
        /\ frame[f].detached = 1
        /\ frame[f].m_reference_count = 3
        /\ frame[g].state = "destroyed"

\* C3: when a task awaits a task that is not done, the caller is suspended,
\* the callee's parent is the caller, the callee's stack bottom is the
\* caller's, and the callee runs at once on the same thread without passing
\* through a wake list.
C3_AwaitLinksAndTransfers ==
    [][\A w \in Workers, p \in Frames :
         (cur[w] = p /\ frame[p].state = "running" /\ frame'[p].state = "await_task")
           => LET c == frame[p].child
              IN  /\ c # 0
                  /\ ~done(frame, c)
                  /\ frame'[c].m_parent = p
                  /\ frame'[c].m_stack_bottom = frame[p].m_stack_bottom
                  /\ frame'[c].state = "running"
                  /\ cur'[w] = c
                  /\ wpc'[w] = "incoro"
                  /\ m_tasks' = m_tasks
                  /\ tasks' = tasks]_vars

\* a caller suspended on a callee that is running
C3_Witness ==
    \E w \in Workers, p \in Frames :
        /\ frame[p].state = "await_task"
        /\ cur[w] = frame[p].child
        /\ frame[cur[w]].state = "running"

\* f's parent pointers lead to frame b within n steps
RECURSIVE Climbs(_, _, _)
Climbs(f, b, n) ==
    IF f = b THEN TRUE
    ELSE IF n = 0 \/ frame[f].m_parent = 0 THEN FALSE
    ELSE Climbs(frame[f].m_parent, b, n - 1)

\* C4: the stack bottom recorded in a live frame is a live frame without a
\* parent, and the frame's parent pointers lead to it.
C4_StackBottomIsRoot ==
    \A f \in Frames :
        Live(f) =>
            LET b == frame[f].m_stack_bottom
            IN  /\ b \in Frames
                /\ Live(b)
                /\ frame[b].m_parent = 0
                /\ Climbs(f, b, MaxFrames)

\* a chain three frames deep
C4_Witness ==
    \E f \in Frames :
        /\ Live(f)
        /\ frame[f].m_parent # 0
        /\ frame[frame[f].m_parent].m_parent # 0
        /\ frame[f].m_stack_bottom = frame[frame[f].m_parent].m_parent

\* C5: a frame that finishes is at its final suspension point (done); control
\* goes to its parent, which continues inside the same resume call, or to the
\* worker loop when the frame has no parent; no wake list is involved.
C5_FinalSuspendHandsOver ==
    [][\A w \in Workers, f \in Frames :
         /\ (cur[w] = f /\ frame[f].state = "running" /\ frame'[f].state = "done")
              => /\ IF frame[f].m_parent # 0
                    THEN /\ cur'[w] = frame[f].m_parent
                         /\ wpc'[w] = "incoro"
                         /\ terminated' \/ frame'[frame[f].m_parent].state = "running"
                    ELSE /\ cur'[w] = 0
                         /\ wpc'[w] = "check"
                 /\ m_tasks' = m_tasks
                 /\ tasks' = tasks
         /\ frame[f].state = "done" => frame'[f].state \in {"done", "destroyed"}]_vars

\* a parent running again with the result of its finished child
C5_Witness ==
    \E w \in Workers :
        /\ wpc[w] = "incoro"
        /\ cur[w] # 0
        /\ frame[cur[w]].state = "running"
        /\ frame[cur[w]].child # 0
        /\ frame[frame[cur[w]].child].state = "done"
        /\ frame[frame[cur[w]].child].m_parent = cur[w]
        /\ frame[cur[w]].got.tag \in {"value", "void", "exc"}

\* C6 as stated: the frame the loop resumes for a wake-list entry is the stack
\* bottom of its chain, never a frame that has a parent.
C6_ResumesStackBottom ==
    [][\A w \in Workers :
         (wpc[w] = "resume" /\ wpc'[w] = "incoro")
           => /\ cur'[w] = frame[cur'[w]].m_stack_bottom
              /\ frame[cur'[w]].m_parent = 0]_vars

\* C6: the frame the loop resumes for a wake-list entry is the entry's own
\* frame; the stack bottom of the entry's chain is read before the resume and
\* is the only frame the loop tests for completion and releases.
C6_ResumesEntry ==
    [][\A w \in Workers :
         /\ (wpc[w] = "resume" /\ wpc'[w] = "incoro")
              => LET t == tasks[w][idx[w]]
                 IN  /\ cur'[w] = t
                     /\ frame'[t].state = "running"
                     /\ stack_bottom'[w] = frame[t].m_stack_bottom
         /\ (wpc[w] = "check" /\ wpc'[w] = "resume")
              => \A f \in Frames :
                   f # stack_bottom[w] => frame'[f].reaped = frame[f].reaped]_vars

\* the loop has resumed an entry that is an interior frame of its chain
C6_Witness ==
    \E w \in Workers :
        /\ wpc[w] = "incoro"
        /\ idx[w] \in 1..Len(tasks[w])
        /\ cur[w] = tasks[w][idx[w]]
        /\ frame[cur[w]].m_parent # 0
        /\ stack_bottom[w] # cur[w]

\* C7: the loop's ownership of a scheduled task is released once, when the
\* task's stack bottom is done after a resume: a finished task without another
\* owner is destroyed before the loop takes the next entry, and a task with a
\* surviving future object stays alive, finished, until that object goes.
C7_ReleasedOnceWhenDone ==
    \A f \in Frames :
        /\ frame[f].reaped <= 1
        /\ frame[f].detached + frame[f].reaped <= 1
        /\ frame[f].reaped = 1
             => IF HandlesOf(f) # {} THEN frame[f].state = "done"
                ELSE frame[f].state = "destroyed"
        /\ (frame[f].state = "done" /\ frame[f].detached = 1)
             => \E w \in Workers : wpc[w] = "check" /\ stack_bottom[w] = f
        /\ HandlesOf(f) # {} => Live(f)

\* one released task kept alive by a future object, another destroyed
C7_Witness ==
    \E f, g \in Frames :
        /\ frame[f].reaped = 1 /\ frame[f].state = "done" /\ HandlesOf(f) # {}
        /\ frame[g].reaped = 1 /\ frame[g].state = "destroyed"

\* C8 as stated: whatever the return type of the child, a failure that leaves
\* the child's body is stored and raised again in the parent at its await; the
\* program does not terminate.
C8_FailureReachesParent ==
    [][\A c \in Frames :
         (frame[c].state = "running" /\ frame'[c].state = "done"
            /\ frame'[c].m_exception # 0 /\ frame[c].m_parent # 0)
           => /\ ~terminated'
              /\ frame'[frame[c].m_parent].state = "running"
              /\ frame'[frame[c].m_parent].got
                   = [tag |-> "exc", v |-> frame'[c].m_exception]]_vars

\* the chain of frame f is in a wake list, waits for I/O, or is being run
InWakeList(f) ==
    \E w \in Workers, i \in 1..MaxFrames :
        \/ i <= Len(m_tasks[w]) /\ frame[m_tasks[w][i]].m_stack_bottom = f
        \/ i <= Len(tasks[w]) /\ i >= idx[w] /\ frame[tasks[w][i]].m_stack_bottom = f
PendingOnIO(f) ==
    \E g \in Frames : frame[g].state = "await_io" /\ frame[g].m_stack_bottom = f
BeingRun(f) ==
    \E w \in Workers :
        \/ stack_bottom[w] = f
        \/ cur[w] # 0 /\ frame[cur[w]].m_stack_bottom = f

\* C9 as stated: a scheduled task that no future object keeps is in a wake
\* list, waiting for I/O, being run, or destroyed; once io_context::run has
\* returned it is destroyed.
C9_NoScheduledFrameLeaked ==
    \A f \in Scheduled :
        HandlesOf(f) = {} =>
            /\ frame[f].state = "destroyed" \/ InWakeList(f) \/ PendingOnIO(f) \/ BeingRun(f)
            /\ pool_pc = "returned" => frame[f].state = "destroyed"

\* C10 as stated: once io_context::stop has been called on a running pool,
\* every worker leaves its loop and io_context::run returns.
C10_StopLeadsToReturn == stop_called ~> (pool_pc = "returned")

\* C11: on a pool with one worker, io_context::stop called from inside a task
\* does not interrupt the task: its body goes on until it ends or suspends, the
\* remaining entries of the iteration are still resumed, the loop is left at
\* its next test and io_context::run returns.
C11_StopFromTaskEndsRun ==
    /\ [][\A w \in Workers :
            /\ (wpc[w] = "incoro" /\ ~m_should_stop[w] /\ m_should_stop'[w])
                 => /\ cur'[w] = cur[w]
                    /\ wpc'[w] = "incoro"
                    /\ frame'[cur[w]].state = "running"
                    /\ tasks' = tasks /\ idx' = idx
            /\ (wpc[w] # "leave" /\ wpc'[w] = "leave")
                 => /\ wpc[w] = "top"
                    /\ tasks[w] = <<>>
                    /\ cur[w] = 0
                    /\ \A f \in Frames : frame[f].state # "running"
            /\ (wpc[w] = "top" /\ m_should_stop[w]) => wpc'[w] \in {"top", "leave"}]_vars
    /\ stop_called ~> (pool_pc = "returned" /\ \A w \in ActiveWorkers : ~worker_is_running[w])

\* run() has returned after a task called stop and then ran to its end
C11_Witness ==
    /\ stop_called
    /\ pool_pc = "returned"
    /\ \E f \in Frames : frame[f].state = "destroyed" /\ frame[f].reaped = 1
    /\ \A f \in Frames : ~Live(f)

\* C12: in a chain A awaits B awaits C on a one-worker pool, the await gives
\* the parent the value its child stored, so that when B returns what it got
\* from C, A receives the value C produced; the frame of an awaited child is
\* destroyed when the future of the await expression goes; and when
\* io_context::run has returned every frame is destroyed, with count 0.
C12_ChainValueAndLifetime ==
    /\ [](\A p \in Frames :
            (frame[p].got.tag = "value" /\ frame[p].child # 0)
              => /\ frame[frame[p].child].state = "done"
                 /\ frame[p].got.v = frame[frame[p].child].m_value)
    /\ [](pool_pc = "returned"
            => \A f \in Frames :
                 frame[f].state # "none"
                   => frame[f].state = "destroyed" /\ frame[f].m_reference_count = 0)
    /\ [][\A b \in Frames :
            /\ (frame[b].state = "running" /\ frame'[b].state = "done"
                  /\ PassThrough(b) /\ frame[b].m_parent # 0)
                 => /\ frame'[b].m_value = frame[frame[b].child].m_value
                    /\ frame'[frame[b].m_parent].got
                         = [tag |-> "value", v |-> frame[frame[b].child].m_value]
            /\ (frame[b].child # 0 /\ frame'[b].child = 0)
                 => frame'[frame[b].child].state = "destroyed"]_vars

\* A has received from B the value that C, now destroyed, returned to B
C12_Witness ==
    \E a, b, c \in Frames :
        /\ frame[a].m_parent = 0 /\ frame[a].state = "running"
        /\ frame[a].child = b /\ frame[b].state = "done" /\ frame[b].m_parent = a
        /\ frame[a].got = [tag |-> "value", v |-> 2]
        /\ c \notin {a, b} /\ frame[c].state = "destroyed" /\ frame[c].detached + frame[c].reaped = 0

\* sequence a is the beginning of sequence b
IsPrefix(a, b) == Len(a) <= Len(b) /\ SubSeq(b, 1, Len(a)) = a

\* the entries of the local list `tasks` the range-for has not resumed yet
Unresumed(w) ==
    LET first == IF wpc[w] \in {"incoro", "check"} THEN idx[w] + 1 ELSE idx[w]
    IN  IF tasks[w] = <<>> \/ first > Len(tasks[w]) THEN <<>>
        ELSE SubSeq(tasks[w], first, Len(tasks[w]))

\* how many entries of sequence q refer to frame f
Occurrences(q, f) == Cardinality({i \in 1..Len(q) : q[i] = f})

\* the entries that wait to be resumed refer to f this many times
Waiting(f) ==
    LET Count[n \in 0..MaxWorkers] ==
          IF n = 0 THEN 0
          ELSE Count[n - 1] + Occurrences(m_tasks[n], f) + Occurrences(Unresumed(n), f)
    IN  Count[MaxWorkers]

\* C13: a worker resumes the entries of its wake list in the order they were
\* appended: schedule and the drain append at the end, the swap hands the whole
\* list over unchanged, and the range-for resumes the entries one by one from
\* the first to the last, each once.
C13_WakeListIsFifo ==
    [][\A w \in Workers :
         /\ \/ IsPrefix(m_tasks[w], m_tasks'[w])
            \/ /\ wpc[w] = "swap"
               /\ m_tasks'[w] = <<>>
               /\ tasks'[w] = m_tasks[w]
               /\ idx'[w] = 1
         /\ tasks'[w] # tasks[w]
              => \/ wpc[w] = "swap" /\ tasks[w] = <<>>
                 \/ tasks'[w] = <<>> /\ idx[w] = Len(tasks[w]) + 1
         /\ (wpc[w] = "resume" /\ wpc'[w] = "incoro")
              => /\ idx[w] \in 1..Len(tasks[w])
                 /\ cur'[w] = tasks[w][idx[w]]
                 /\ idx'[w] = idx[w]
         /\ (wpc[w] = "check" /\ wpc'[w] = "resume") => idx'[w] = idx[w] + 1
         /\ (wpc[w] \notin {"check", "swap"} /\ idx'[w] # idx[w])
              => wpc'[w] = "top" /\ idx'[w] = 0]_vars

\* the second of two entries is being resumed after the first
C13_Witness ==
    \E w \in Workers :
        /\ wpc[w] = "incoro"
        /\ Len(tasks[w]) = 2
        /\ idx[w] = 2
        /\ cur[w] = tasks[w][2]
        /\ tasks[w][1] # tasks[w][2]

\* C14: when the loop resumes a task that waits for I/O, the result is in the
\* task's completion record: the drain of the same iteration wrote it, once,
\* and appended the task to the wake list once; the resumed awaiter reads it.
C14_RecordWrittenBeforeResume ==
    /\ [](\A f \in Frames :
            frame[f].state = "await_io"
              => /\ IF \E w \in Workers : f \in inflight[w]
                    THEN frame[f].io_result = 0 /\ Waiting(f) = 0
                    ELSE frame[f].io_result \in IOResults /\ Waiting(f) = 1
                 /\ \A w \in Workers :
                      Occurrences(m_tasks[w], f) > 0 => wpc[w] = "swap")
    /\ [][\A f \in Frames :
            /\ (\E w \in Workers : wpc[w] = "resume" /\ wpc'[w] = "incoro" /\ cur'[w] = f
                                     /\ frame[f].state = "await_io")
                 => /\ frame[f].io_result \in IOResults
                    /\ frame'[f].got = [tag |-> "io", v |-> frame[f].io_result]
            /\ frame'[f].io_result # frame[f].io_result
                 => \/ /\ frame[f].io_result = 0
                       /\ \E w \in Workers :
                            wpc[w] = "wait" /\ wpc'[w] = "swap" /\ f \in inflight[w]
                    \/ frame'[f].io_result = 0 /\ frame[f].state # frame'[f].state]_vars

\* a task that a completion woke has read its record
C14_Witness ==
    \E w \in Workers :
        /\ wpc[w] = "incoro"
        /\ idx[w] \in 1..Len(tasks[w])
        /\ cur[w] = tasks[w][idx[w]]
        /\ frame[cur[w]].m_parent # 0
        /\ frame[cur[w]].got = [tag |-> "io", v |-> -1]

DispatchedTo(f) == ((f - 1) % m_worker_count) + 1

\* C16: a dispatch on a pool that is not running creates one task per worker
\* and appends exactly one of them to each worker's wake list; as long as a
\* dispatched task of a worker has not been resumed, no task of that worker
\* has been (the first iteration resumes them all), and tasks of one worker
\* are first resumed in the order of their dispatch calls.
C16_DispatchOncePerWorker ==
    /\ [](\A f \in Frames :
            (frame[f].state = "initial" /\ frame[f].detached = 1)
              => /\ Waiting(f) = 1
                 /\ Occurrences(m_tasks[DispatchedTo(f)], f)
                      + Occurrences(Unresumed(DispatchedTo(f)), f) = 1
                 /\ \A g \in Frames :
                      (g > f /\ frame[g].state # "none"
                             /\ DispatchedTo(g) = DispatchedTo(f))
                        => frame[g].state = "initial"
                 /\ Occurrences(m_tasks[DispatchedTo(f)], f) = 1
                      => \A g \in Frames :
                           (frame[g].state # "none" /\ DispatchedTo(g) = DispatchedTo(f))
                             => /\ frame[g].state = "initial"
                                /\ Occurrences(m_tasks[DispatchedTo(f)], g) = 1)
    /\ [][LET new == {f \in Frames : frame[f].state = "none" /\ frame'[f].state # "none"}
          IN  new # {}
                => /\ pool_pc = "idle" /\ ~ctx_is_running
                   /\ Cardinality(new) = m_worker_count
                   /\ \A w \in ActiveWorkers :
                        \E f \in new :
                          /\ m_tasks'[w] = Append(m_tasks[w], f)
                          /\ \A x \in Workers \ {w} : Occurrences(m_tasks'[x], f) = 0
                   /\ \A w \in Workers \ ActiveWorkers : m_tasks'[w] = m_tasks[w]]_vars

\* two workers, each resuming the task the one dispatch call gave it
C16_Witness ==
    /\ m_worker_count = 2
    /\ CountGiven
    /\ NoAddress
    /\ NoPingPong
    /\ \A w \in ActiveWorkers :
         /\ wpc[w] = "incoro"
         /\ cur[w] # 0
         /\ DispatchedTo(cur[w]) = w
         /\ frame[cur[w]].got = NoResult

\* the places of worker w that refer to a frame: wake list, local list,
\* requests in flight and the task being resumed
Refers(mt, tk, inf, c, w, f) ==
    \/ Occurrences(mt[w], f) > 0
    \/ Occurrences(tk[w], f) > 0
    \/ f \in inf[w]
    \/ c[w] = f

\* C17: a frame is referred to by the lists of at most one worker, and the
\* worker that refers to it never changes.
C17_FramesStayOnOneWorker ==
    /\ [](\A f \in Frames :
            Cardinality({w \in Workers :
                           Refers(m_tasks, tasks, inflight, cur, w, f)}) <= 1)
    /\ [][\A f \in Frames : \A w, x \in Workers :
            (Refers(m_tasks, tasks, inflight, cur, w, f)
               /\ Refers(m_tasks', tasks', inflight', cur', x, f)) => w = x]_vars

\* two workers, each with a task of its own that a completion put back on its list
C17_Witness ==
    /\ m_worker_count = 2
    /\ CountGiven
    /\ NoAddress
    /\ NoPingPong
    /\ \A w \in ActiveWorkers :
         \E f \in Frames :
            /\ frame[f].state = "await_io"
            /\ Occurrences(tasks[w], f) = 1
            /\ frame[f].io_result # 0

\* C18: an I/O operation whose await_suspend returns false leaves the wake
\* list, the local list and the worker's position alone and the task goes on
\* inline; no completion is outstanding for a task that is not suspended on
\* I/O, so that none can append it later.
C18_SyncCompletionStaysInline ==
    /\ [](\A f \in Frames :
            /\ (\E w \in Workers : f \in inflight[w]) => frame[f].state = "await_io"
            /\ Waiting(f) > 0 => frame[f].state \in {"initial", "await_io"})
    /\ [][\A w \in Workers :
            (Running(w) /\ frame'[cur[w]].got.tag = "io" /\ frame'[cur[w]].got # frame[cur[w]].got)
              => /\ frame'[cur[w]].state = "running"
                 /\ cur'[w] = cur[w]
                 /\ wpc'[w] = "incoro"
                 /\ m_tasks' = m_tasks
                 /\ tasks' = tasks
                 /\ idx' = idx
                 /\ cq' = cq
                 /\ inflight' = inflight]_vars

\* a Windows task holds the value of a send that completed at once
C18_Witness ==
    /\ platform = "windows"
    /\ \E w \in Workers :
         /\ wpc[w] = "incoro"
         /\ cur[w] # 0
         /\ frame[cur[w]].got = [tag |-> "io", v |-> 1]
         /\ last_error[w] = 0
         /\ inflight[w] = {}
         /\ m_tasks[w] = <<>>

\* C19: each awaiter returns "suspend" only with its request queued for the
\* awaiting frame, returns "don't suspend" with the outcome in the record,
\* and its await_resume gives the recorded outcome as a value.
C19_AwaitersReportOutcome ==
    [][\A w \in Workers :
         /\ (Running(w) /\ frame'[cur[w]].state = "await_io")
              => cur[w] \in inflight'[w]
         /\ (Running(w) /\ frame'[cur[w]].got.tag = "io"
                        /\ frame'[cur[w]].got # frame[cur[w]].got)
              => /\ frame'[cur[w]].state = "running"
                 /\ ~terminated'
         /\ (wpc[w] = "resume" /\ wpc'[w] = "incoro" /\ frame[cur'[w]].state = "await_io")
              => /\ frame'[cur'[w]].got = await_resume_io(frame[cur'[w]].io_result)
                 /\ ~terminated']_vars

\* frame f has just suspended on an I/O awaiter, in a resumption that ran
\* with the worker's stop flag already set
AwaitedAfterStop(f) ==
    \E w \in ActiveWorkers :
        /\ wpc[w] = "check"
        /\ m_should_stop[w]
        /\ frame[f].state = "await_io"
        /\ f \in inflight[w]
        /\ stack_bottom[w] = frame[f].m_stack_bottom

\* C20: an accept awaited after stop() has been requested is resolved: the
\* awaiting task is resumed and its await yields the outcome as a value.
C20_AcceptAfterStopResolved ==
    \A f \in Frames : AwaitedAfterStop(f) ~> (frame[f].got.tag = "io")

\* the threads inside io_context_worker::run of the standalone worker, past
\* the exchange
InWorkerRun == {c \in Callers : caller_pc[c] \in {"init", "top", "leave"}}

\* the threads inside io_context::run, past the exchange
InPoolRun == {c \in Callers : caller_pc[c] = "joining"}

\* C21: run() on a worker or a pool that is running returns at once and
\* changes nothing; of the threads that call run() concurrently at most one
\* is inside a given worker's loop, and at most one drives the pool.
C21_RunIsIdempotent ==
    /\ [](/\ Cardinality(InWorkerRun) <= 1
          /\ Cardinality(InPoolRun) <= 1
          /\ InWorkerRun # {} => worker_is_running[Standalone]
          /\ InPoolRun # {} => ctx_is_running
          /\ InPoolRun = {} => \A w \in ActiveWorkers : wpc[w] \in {"off", "exited"})
    /\ [][\A c \in Callers :
            (caller_pc[c] = "idle" /\ caller_pc'[c] # "idle")
              => /\ caller_pc'[c] = "returned_at_once"
                   <=> \/ worker_is_running[Standalone] /\ InWorkerRun' = InWorkerRun
                                                        /\ InPoolRun' = InPoolRun
                       \/ ctx_is_running /\ InPoolRun' = InPoolRun
                                         /\ InWorkerRun' = InWorkerRun
                 /\ caller_pc'[c] = "returned_at_once"
                      => /\ UNCHANGED <<frameVars, workerVars, poolVars>>
                         /\ \A d \in Callers \ {c} : caller_pc'[d] = caller_pc[d]]_vars

\* one thread is in the standalone worker's loop and another has been sent back
C21_Witness ==
    \E c, d \in Callers :
        /\ caller_pc[c] = "top"
        /\ caller_pc[d] = "returned_at_once"
        /\ worker_is_running[Standalone]
        /\ ~ctx_is_running
        /\ \A w \in ActiveWorkers : wpc[w] = "off"

\* the socket of the stream is an open socket, or the stream holds none
StreamUsable(st, open) == st.m_socket = invalid_socket \/ st.m_socket \in open

\* C22: a connect_async that fails leaves the stream as it was, socket and
\* peer address, with its socket still open; one that succeeds closes the
\* stream's previous socket and gives the stream the new socket and the
\* address passed; before the await ends the stream is not touched.
C22_ConnectFailureKeepsStream ==
    [][/\ (connect_awaitable.state = "ready" /\ connect_awaitable'.state = "none")
            => IF connect_awaitable.result = 0
               THEN /\ stream'.m_socket = connect_awaitable.m_socket
                    /\ stream'.m_address = connect_awaitable.m_address
                    /\ stream'.m_socket \in open_fds'
                    /\ stream.m_socket # stream'.m_socket => stream.m_socket \notin open_fds'
               ELSE /\ stream' = stream
                    /\ StreamUsable(stream, open_fds) => StreamUsable(stream', open_fds')
       /\ connect_awaitable'.state # "none" => stream' = stream]_vars

\* C23: a pool constructed with count 0 or with no argument has as many
\* workers as the machine has logical cores and at least one; a pool
\* constructed with a count above 0 has that many; the count never changes.
C23_WorkerCount ==
    /\ [](m_worker_count =
            IF ctor_count \in {-1, 0}
            THEN (IF hardware_concurrency >= 1 THEN hardware_concurrency ELSE 1)
            ELSE ctor_count)
    /\ [][m_worker_count' = m_worker_count]_vars

\* a pool constructed with count 0 where the core count is unknown has run
\* with its one worker
C23_Witness ==
    /\ ctor_count = 0
    /\ hardware_concurrency = 0
    /\ m_worker_count = 1
    /\ pool_pc = "returned"
    /\ wpc[1] = "exited"

\* C24: for every IPv4 and IPv6 address and every 16-bit port, the
\* inet_address made from them gives back that address from ip_address() and
\* that port from port().
C24_InetAddressRoundTrip ==
    converted.ops = <<"ip_address">> =>
        /\ ip_address_eq(converted.value, ip)
        /\ converted.port = port_arg

\* an IPv4-mapped IPv6 address: ten zero bytes, two bytes 255, then the IPv4 bytes
Ipv4Mapped(a) ==
    /\ a.m_is_v6
    /\ \A i \in 1..10 : a.m_addr[i] = 0
    /\ a.m_addr[11] = 255
    /\ a.m_addr[12] = 255

\* C26: for every IPv4-mapped IPv6 address is_ipv4_mapped_ipv6() is true,
\* to_ipv4() gives the IPv4 address made of its last four bytes and to_ipv6()
\* gives the address itself; to_ipv4() of an IPv4 address and to_ipv6() of an
\* IPv6 address give the address itself.
C26_MappedConversions ==
    /\ (Ipv4Mapped(ip) /\ converted.ops = <<"is_ipv4_mapped_ipv6">>) => converted.answer
    /\ (Ipv4Mapped(ip) /\ converted.ops = <<"to_ipv4">>) =>
            converted.value = ip_address_v4(ip.m_addr[13], ip.m_addr[14],
                                            ip.m_addr[15], ip.m_addr[16])
    /\ (ip.m_is_v6 /\ converted.ops = <<"to_ipv6">>) => converted.value = ip
    /\ (~ip.m_is_v6 /\ converted.ops = <<"to_ipv4">>) => converted.value = ip

\* ::FFFF:1.0.0.255 has been converted to 1.0.0.255 on a little-endian host
C26_Witness ==
    /\ native = "little"
    /\ Ipv4Mapped(ip)
    /\ SubSeq(ip.m_addr, 13, 16) = <<1, 0, 0, 255>>
    /\ converted.ops = <<"to_ipv4">>
    /\ converted.value = ip_address_v4(1, 0, 0, 255)

\* C27: for every IPv4 address a, a.to_ipv6() is the IPv4-mapped address that
\* holds the bytes of a in their order, and a.to_ipv6().to_ipv4() equals a,
\* on little- and on big-endian hosts.
C27_Ipv4ToIpv6RoundTrip ==
    ~ip.m_is_v6 =>
        /\ converted.ops = <<"to_ipv6">> =>
            /\ Ipv4Mapped(converted.value)
            /\ SubSeq(converted.value.m_addr, 13, 16) = SubSeq(ip.m_addr, 1, 4)
        /\ converted.ops = <<"to_ipv6", "to_ipv4">> => ip_address_eq(converted.value, ip)

\* C25: for every sequence of transfer sizes, partial sends and receives
\* included, the bytes the client got back are as many as the bytes it sent
\* once it leaves its loop, and after each of its iterations the server has
\* echoed exactly as many bytes as it received.
C25_PingPongTotals ==
    /\ client.pc = "done" => client.received = client.total_size
    /\ server.pc \in {"loop", "done"} => server.echoed = server.total_size

\* C28: the stop flag is examined only at the top of the loop. A worker whose
\* flag is set during an iteration still resumes every entry that was swapped
\* into its local list, and reaps the finished ones, before it leaves; it
\* leaves at the next test of the loop, before another wait.
C28_StopExaminedAtLoopTop ==
    /\ [][\A w \in Workers :
            /\ (m_should_stop[w] /\ wpc[w] = "swap")
                 => wpc'[w] \in {"swap", "resume"}
            /\ (m_should_stop[w] /\ wpc[w] = "resume" /\ idx[w] <= Len(tasks[w]))
                 => \/ wpc'[w] = "resume" /\ idx'[w] = idx[w]
                    \/ wpc'[w] = "incoro" /\ cur'[w] = tasks[w][idx[w]]
            /\ (m_should_stop[w] /\ wpc[w] = "incoro")
                 => wpc'[w] \in {"incoro", "check"}
            /\ (m_should_stop[w] /\ wpc[w] = "check")
                 => \/ wpc'[w] = "check"
                    \/ /\ wpc'[w] = "resume"
                       /\ idx'[w] = idx[w] + 1
                       /\ frame' = reap(frame, stack_bottom[w])
            /\ (m_should_stop[w] /\ wpc[w] = "resume" /\ idx[w] > Len(tasks[w]))
                 => wpc'[w] \in {"resume", "top"}
            /\ (m_should_stop[w] /\ wpc[w] = "top") => wpc'[w] \in {"top", "leave"}
            /\ (wpc[w] # "leave" /\ wpc'[w] = "leave") => Unresumed(w) = <<>>]_vars
    /\ [](\A w \in Workers : wpc[w] \in {"leave", "exited"} => tasks[w] = <<>>)

\* the worker resumes the second entry of its list although stop was called
\* by then
C28_Witness ==
    /\ m_should_stop[1]
    /\ wpc[1] = "incoro"
    /\ Len(tasks[1]) = 2
    /\ idx[1] = 2

\* C30: a completion without a record, the no-op that schedule posts, adds
\* nothing to the wake list and changes no record: the wait that drains it
\* appends one entry for each request that completed, names no other frame,
\* and writes the records of those requests only.
C30_NopWakesOnly ==
    [][\A w \in Workers :
         (wpc[w] = "wait" /\ wpc'[w] = "swap") =>
            LET completed == inflight[w] \ inflight'[w]
            IN  /\ Len(m_tasks'[w]) = Len(m_tasks[w]) + Cardinality(completed)
                /\ IsPrefix(m_tasks[w], m_tasks'[w])
                /\ \A i \in (Len(m_tasks[w]) + 1)..Len(m_tasks'[w]) :
                       m_tasks'[w][i] \in completed
                /\ \A f \in Frames \ completed : frame'[f] = frame[f]
                /\ cq'[w] = <<>>
                /\ tasks' = tasks /\ cur' = cur]_vars

\* a wait has drained the no-op of a schedule and nothing else: the wake list
\* holds the scheduled task only
C30_Witness ==
    /\ wpc[1] = "swap"
    /\ cq[1] = <<>>
    /\ Len(m_tasks[1]) = 1
    /\ inflight[1] = {}
    /\ \A f \in Frames : frame[f].state # "await_io"

\* C29: a stop request is never lost to the interleaving of the start-up. Once
\* stop has been called after run was invoked, even before a worker's thread
\* has entered its loop, the flag of every worker stays set until the worker
\* has left, every worker leaves and io_context::run returns.
C29_StopNeverLost ==
    /\ [][\A w \in ActiveWorkers :
            (stop_called /\ m_should_stop[w] /\ wpc[w] \notin {"leave", "exited"})
               => m_should_stop'[w]]_vars
    /\ stop_called ~> (pool_pc = "returned" /\ \A w \in ActiveWorkers : wpc[w] = "exited")

\* what the frame of a finished task holds: its value, or its failure
Stored(p) ==
    IF p.m_exception # 0 THEN [tag |-> "exc", v |-> p.m_exception]
    ELSE IF p.kind = "void" THEN [tag |-> "void", v |-> 0]
    ELSE [tag |-> "value", v |-> p.m_value]

\* worker w's thread evaluates a co_await on a task that is done in this step
AwaitsDone(w) ==
    /\ Running(w)
    /\ frame[cur[w]].child # 0
    /\ done(frame, frame[cur[w]].child)
    /\ \/ ~terminated /\ terminated' /\ frame' = frame
       \/ /\ cur'[w] = cur[w]
          /\ frame'[cur[w]].child = frame[cur[w]].child
          /\ frame'[cur[w]].got # frame[cur[w]].got
          /\ frame'[cur[w]].got.tag \in {"value", "void", "exc"}

\* C31: a co_await on a task that is already done does not suspend the
\* caller, leaves the callee's frame as it is (parent and stack bottom
\* included), resumes nothing, and gives the caller the stored value or
\* raises the stored failure in it.
C31_AwaitOnDoneTask ==
    [][\A w \in Workers :
         AwaitsDone(w) =>
            LET f == cur[w]
                c == frame[f].child
            IN  /\ ~terminated'
                /\ frame'[c] = frame[c]
                /\ cur' = cur /\ wpc' = wpc
                /\ m_tasks' = m_tasks /\ tasks' = tasks
                /\ frame'[f].state = "running"
                /\ frame'[f].got = Stored(frame[c])
                /\ \A g \in Frames \ {f} : frame'[g] = frame[g]]_vars

\* a task has awaited a finished task that failed and got the failure
C31_Witness ==
    \E w \in Workers :
        /\ Running(w)
        /\ frame[cur[w]].child # 0
        /\ done(frame, frame[cur[w]].child)
        /\ frame[cur[w]].got = Stored(frame[frame[cur[w]].child])
        /\ frame[cur[w]].got.tag = "exc"

\* the states a frame in state st may be in after one step
FrameSuccessors(st) ==
    CASE st = "none" -> {"none", "initial"}
      [] st = "initial" -> {"initial", "running", "destroyed"}
      [] st = "running" -> {"running", "await_task", "await_io", "done"}
      [] st = "await_task" -> {"await_task", "running"}
      [] st = "await_io" -> {"await_io", "running"}
      [] st = "done" -> {"done", "destroyed"}
      [] OTHER -> {"destroyed"}

\* C32: a frame is created suspended, runs only once it is awaited or resumed
\* by the worker, alternates between running and suspended, ends done and is
\* then released; a frame that is done or released is never resumed again, by
\* the worker, by an await or by a final suspend.
C32_FrameLifeCycle ==
    [][\A f \in Frames :
         /\ frame'[f].state \in FrameSuccessors(frame[f].state)
         /\ (frame[f].state # "running" /\ frame'[f].state = "running")
              => \E w \in Workers : cur'[w] = f /\ wpc'[w] = "incoro"]_vars

\* a task called by another has been released (it was never scheduled), its
\* caller runs, and another task waits for I/O
C32_Witness ==
    \E f, g, h \in Frames :
        /\ frame[f].state = "destroyed" /\ f \notin Scheduled
        /\ frame[g].state = "running"
        /\ frame[h].state = "await_io"

\* ------------------------------------------------- wake sources of a chain
\* the entries of sequence q whose frame belongs to the chain of stack bottom b
ChainEntries(q, b) ==
    Cardinality({i \in 1..Len(q) : frame[q[i]].m_stack_bottom = b})

\* the completions of q whose record belongs to the chain of stack bottom b
ChainCompletions(q, b) ==
    Cardinality({i \in 1..Len(q) :
                   q[i].task # 0 /\ frame[q[i].task].m_stack_bottom = b})

\* the wake-list entries, queued completions and requests in flight that will
\* resume a frame of the chain of stack bottom b
WakeSources(b) ==
    LET Count[n \in 0..MaxWorkers] ==
          IF n = 0 THEN 0
          ELSE Count[n - 1]
                 + ChainEntries(m_tasks[n], b) + ChainEntries(Unresumed(n), b)
                 + ChainCompletions(cq[n], b)
                 + Cardinality({g \in inflight[n] : frame[g].m_stack_bottom = b})
    IN  Count[MaxWorkers]

\* C33: the frames of one chain have at most one pending wake source between
\* them, a wake-list entry or a request in flight; a chain that a worker is
\* running has none, a frame with a pending wake source is suspended, and each
\* step into a coroutine consumes the wake-list entry it was resumed for.
C33_OneWakeSource ==
    /\ [](\A b \in Frames :
            /\ WakeSources(b) <= 1
            /\ (\E w \in Workers : wpc[w] = "incoro" /\ cur[w] # 0
                                     /\ frame[cur[w]].m_stack_bottom = b)
                 => WakeSources(b) = 0
            /\ \A w \in Workers :
                 b \in inflight[w] => frame[b].state = "await_io")
    /\ [][\A w \in Workers :
            (wpc[w] = "resume" /\ wpc'[w] = "incoro")
              => /\ WakeSources(frame[tasks[w][idx[w]]].m_stack_bottom) = 1
                 /\ frame[tasks[w][idx[w]]].state \in {"initial", "await_io"}]_vars

\* a chain of two frames waits for one request while another task of the same
\* worker waits in the wake list
C33_Witness ==
    \E w \in Workers, f, g \in Frames :
        /\ f \in inflight[w]
        /\ frame[f].m_stack_bottom # f
        /\ WakeSources(frame[f].m_stack_bottom) = 1
        /\ frame[g].m_stack_bottom = g
        /\ WakeSources(g) = 1
        /\ g \notin inflight[w]

\* ------------------------------------------------- a stack bottom that raises
\* the step lets the stack bottom that worker w runs end with a failure
RaisesAtBottom(w) ==
    /\ wpc[w] = "incoro"
    /\ cur[w] # 0
    /\ frame[cur[w]].m_parent = 0
    /\ frame'[cur[w]].state = "done"
    /\ frame'[cur[w]].m_exception # 0

\* worker w is back in its loop with a stack bottom that ended with a failure
FailedAtCheck(w) ==
    /\ wpc[w] = "check"
    /\ stack_bottom[w] # 0
    /\ frame[stack_bottom[w]].state = "done"
    /\ frame[stack_bottom[w]].m_exception # 0

\* C34: when a stack bottom ends by raising, the failure is stored in its frame
\* and control returns to the worker loop with the worker's state untouched and
\* the program alive; the loop then gives up its reference to the frame like
\* that of any finished task (with no other owner the frame is destroyed) and
\* moves to the next entry of the list, or to the next iteration after the last.
C34_FailureAtStackBottom ==
    [][\A w \in Workers :
         /\ RaisesAtBottom(w)
              => /\ ~terminated'
                 /\ wpc'[w] = "check"
                 /\ stack_bottom'[w] = cur[w]
                 /\ <<tasks, idx, m_tasks, worker_is_running, m_should_stop>>'
                      = <<tasks, idx, m_tasks, worker_is_running, m_should_stop>>
         /\ (FailedAtCheck(w) /\ wpc'[w] # "check")
              => /\ ~terminated'
                 /\ frame'[stack_bottom[w]].state
                      = IF frame[stack_bottom[w]].m_reference_count = 1
                        THEN "destroyed" ELSE "done"
                 /\ frame'[stack_bottom[w]].reaped = frame[stack_bottom[w]].reaped + 1
                 /\ wpc'[w] = "resume"
                 /\ idx'[w] = idx[w] + 1
                 /\ tasks'[w] = tasks[w]
         /\ (wpc[w] = "resume" /\ wpc'[w] # "resume")
              => \/ /\ idx[w] <= Len(tasks[w])
                    /\ wpc'[w] = "incoro"
                    /\ cur'[w] = tasks[w][idx[w]]
                 \/ /\ idx[w] > Len(tasks[w])
                    /\ wpc'[w] = "top"]_vars

\* the first of two entries of a wake list has ended by raising and is about
\* to be released; the second entry has not been resumed yet
C34_Witness ==
    \E w \in Workers :
        /\ FailedAtCheck(w)
        /\ idx[w] = 1
        /\ Len(tasks[w]) = 2
        /\ frame[stack_bottom[w]].m_reference_count = 1
        /\ frame[tasks[w][2]].state = "initial"

\* ------------------------------------------------- worker affinity
\* io_context ctx(2) with dispatched tasks that call and await tasks, wait for
\* I/O, return or stop the pool
AffinityInit ==
    /\ InitCommon
    /\ open_fds = {}
    /\ platform = "linux"
    /\ m_worker_count = 2
    /\ CountGiven
    /\ NoAddress
    /\ NoPingPong
    /\ frame_limit = MaxFrames

AffinityTaskStep(w) ==
    \/ CallChild(w)
    \/ AwaitSuspend(w)
    \/ Return(w)
    \/ AwaitIOPending(w)
    \/ StopFromTask(w)

AffinityNext ==
    \/ Dispatch
    \/ RunCall
    \/ RunReturn
    \/ \E w \in Workers : AffinityTaskStep(w)
    \/ \E w \in Workers : WorkerStep(w)

AffinitySpec == AffinityInit /\ [][AffinityNext]_vars

\* worker w holds a frame of the chain of stack bottom b: in its wake list,
\* among its requests in flight, or as the task its thread runs
ChainOn(w, b) ==
    \/ ChainEntries(m_tasks[w], b) + ChainEntries(Unresumed(w), b) > 0
    \/ \E g \in inflight[w] : frame[g].m_stack_bottom = b
    \/ stack_bottom[w] = b
    \/ cur[w] # 0 /\ frame[cur[w]].m_stack_bottom = b

\* C35: a chain is held by one worker and never by another one afterwards; a
\* frame is resumed only on a thread whose current worker is the worker that
\* held its chain; a request is queued only by the task a worker's thread is
\* running, on the completion queue of that very worker, and its completion is
\* appended to that worker's wake list.
C35_WorkerAffinity ==
    /\ [](\A b \in Frames :
            Cardinality({w \in Workers : ChainOn(w, b)}) <= 1)
    /\ [][/\ \A b \in Frames, w, x \in Workers :
               (ChainOn(w, b) /\ ChainOn(x, b)') => w = x
          /\ \A w \in Workers :
               /\ (cur'[w] # 0 /\ cur'[w] # cur[w])
                    => /\ current(w) = w
                       /\ \/ ChainOn(w, frame'[cur'[w]].m_stack_bottom)
                          \/ frame[cur[w]].child = cur'[w]
               /\ \A g \in inflight'[w] \ inflight[w] :
                    /\ wpc[w] = "incoro"
                    /\ current(w) = w
                    /\ g = cur[w]
               /\ \A g \in inflight[w] \ inflight'[w] :
                    /\ Occurrences(m_tasks'[w], g) = 1
                    /\ \A x \in Workers \ {w} : Occurrences(m_tasks'[x], g) = 0]_vars

\* both workers run at once: one is inside a called task of its chain, the
\* other has a request of its own task in flight
C35_Witness ==
    \E w, x \in Workers :
        /\ w # x
        /\ wpc[w] = "incoro"
        /\ cur[w] # 0
        /\ frame[cur[w]].m_stack_bottom # cur[w]
        /\ stack_bottom[w] = frame[cur[w]].m_stack_bottom
        /\ \E g \in inflight[x] : frame[g].m_stack_bottom = g

\* ------------------------------------------------- sockets of failed attempts
\* C37 as stated: when a connect_async has failed, the end of the await closes
\* the socket that await_suspend created for the attempt, if it created one,
\* and no other descriptor.
C37_FailureClosesOwnSocket ==
    [][(/\ connect_awaitable.state = "ready"
        /\ connect_awaitable.result # 0
        /\ connect_awaitable'.state = "none")
         => open_fds \ open_fds'
              = IF connect_awaitable.s # invalid_socket
                THEN {connect_awaitable.s} ELSE {}]_vars

\* ------------------------------------------------- the queue of a worker
\* workers constructed and destroyed in any order, on either platform
MuxerInit ==
    /\ InitCommon
    /\ open_fds = {}
    /\ platform \in {"linux", "windows"}
    /\ m_worker_count = 1
    /\ CountGiven
    /\ NoAddress
    /\ NoPingPong
    /\ frame_limit = 0

MuxerNext ==
    \/ \E w \in Workers : WorkerConstruct(w)
    \/ \E w \in Workers : WorkerDestroy(w)

MuxerSpec == MuxerInit /\ [][MuxerNext]_vars

\* C36 as stated: destroying a worker releases the kernel queue its
\* constructor stored in m_muxer and no other: the program goes on and the
\* queues that exist afterwards are those that existed before but that one.
C36_DestructorReleasesOwnQueue ==
    [][\A w \in Workers :
         (muxer.worker[w].state = "alive" /\ muxer'.worker[w].state = "gone")
           => /\ ~terminated'
              /\ muxer'.queues = muxer.queues \ {muxer.worker[w].m_muxer}]_vars

\* ------------------------------------------------- the blocking connect
\* a stream that is connected by connect_async or by connect, again and again
BlockingInit ==
    /\ InitCommon
    /\ platform \in {"linux", "windows"}
    /\ open_fds \in {{}, {0}}
    /\ m_worker_count = 1
    /\ CountGiven
    /\ NoAddress
    /\ NoPingPong
    /\ frame_limit = 0

BlockingNext ==
    \/ ConnectAsync
    \/ ConnectCompleted
    \/ ConnectResume
    \/ Connect

BlockingSpec == BlockingInit /\ [][BlockingNext]_vars

\* C38 as stated: a blocking connect that returns no error has connected a
\* new socket to the address passed, has closed the socket the stream held
\* and has made the new socket and the address passed the stream's; one that
\* returns an error leaves the stream and the open sockets as they were.
C38_BlockingConnect ==
    [][blocking' # blocking
         => IF blocking'.result = 0
            THEN /\ blocking'.os = "done"
                 /\ blocking'.dest = blocking'.arg
                 /\ family(blocking'.dest) = family(blocking'.arg)
                 /\ stream' = [m_socket |-> blocking'.s, m_address |-> blocking'.arg]
                 /\ blocking'.s \in open_fds'
                 /\ stream.m_socket \notin open_fds'
            ELSE /\ stream' = stream
                 /\ open_fds' = open_fds]_vars

\* ------------------------------------------------- ownership of sockets
SocketInit ==
    /\ InitCommon
    /\ open_fds = {}
    /\ platform = "linux"
    /\ m_worker_count = 1
    /\ CountGiven
    /\ NoAddress
    /\ NoPingPong
    /\ frame_limit = 0

SocketNext ==
    \/ \E n \in Objects : SocketDefaultConstruct(n)
    \/ \E n \in Objects : Accept(n)
    \/ \E o \in Objects : Bind(o)
    \/ \E n, o \in Objects : SocketMoveConstruct(n, o)
    \/ \E t, o \in Objects : SocketMoveAssign(t, o)
    \/ \E o \in Objects : Close(o)
    \/ \E o \in Objects : Destroy(o)

SocketSpec == SocketInit /\ [][SocketNext]_vars

\* the objects that hold socket i
Owners(i) == {o \in Objects : Alive(o) /\ sockets.obj[o].m_socket = i}

\* C39: a socket the system has made is held by exactly one object and has
\* not been closed, or is held by none and has been closed exactly once (so
\* once every object is destroyed every socket has been closed once); the
\* source of a move and a closed object hold no socket afterwards, the target
\* of a move holds what the source held; a move-assignment to itself and a
\* close of an object that holds no socket change nothing.
C39_SocketOwnedOnceClosedOnce ==
    /\ [](\A i \in SocketIds :
            IF i <= sockets.made
            THEN \/ Cardinality(Owners(i)) = 1 /\ sockets.closes[i] = 0
                 \/ Owners(i) = {} /\ sockets.closes[i] = 1
            ELSE Owners(i) = {} /\ sockets.closes[i] = 0)
    /\ [][LET op == sockets'.last.op
              t == sockets'.last.to
              o == sockets'.last.from
          IN  sockets' # sockets =>
                /\ (op \in {"move_construct", "move_assign"} /\ t # o)
                     => /\ sockets'.obj[o].m_socket = invalid_socket
                        /\ sockets'.obj[o].state = "alive"
                        /\ sockets'.obj[t].m_socket = sockets.obj[o].m_socket
                /\ (op = "move_assign" /\ t = o)
                     => /\ sockets'.obj = sockets.obj
                        /\ sockets'.closes = sockets.closes
                /\ op \in {"close", "destroy"}
                     => /\ sockets'.obj[t].m_socket = invalid_socket
                        /\ sockets.obj[t].m_socket = invalid_socket
                             => sockets'.closes = sockets.closes]_vars

\* a move-assignment has just given a socket to an object of which an earlier
\* socket has been closed, its source is left empty, and another object has
\* been destroyed
C39_Witness ==
    /\ sockets.last.op = "move_assign"
    /\ sockets.last.to # sockets.last.from
    /\ sockets.obj[sockets.last.to].m_socket # invalid_socket
    /\ sockets.obj[sockets.last.from].m_socket = invalid_socket
    /\ \E i \in SocketIds : sockets.closes[i] = 1
    /\ \E o \in Objects : sockets.obj[o].state = "gone"
====
